---------------------------- MODULE Spec2Model ----------------------------
(***************************************************************************)
(* A model of the GoToSocial activity-processing core: the federation      *)
(* dispatcher (internal/processing/workers/fromfediapi.go), cursor paging  *)
(* (internal/paging), the in-memory entity caches (internal/cache), the    *)
(* worker pool (internal/concurrency/workers.go), the mutes filters        *)
(* (internal/filter/mutes), the outgoing HTTP client and its queue cache   *)
(* (internal/httpclient), the mentions getters (internal/db/bundb) and     *)
(* the client API processors BlockCreate and FaveCreate                    *)
(* (internal/processing).                                                  *)
(*                                                                         *)
(* Each subsystem has its own variables, initial predicate and next-state  *)
(* relation; a specification of one subsystem keeps the variables of the   *)
(* others at their initial values.                                         *)
(***************************************************************************)
EXTENDS Integers, Sequences, FiniteSets, TLC

VARIABLES
    \* ---- federation dispatcher ----
    stored,     \* the statuses table: status id -> row ([n] rows, attributes)
    inflight,   \* per worker: the message whose handler it is in
    effects,    \* every call a handler made on a collaborator, in order
    returns,    \* every finished dispatch: message, injected faults, result
    \* ---- cursor paging ----
    pgIn,       \* the caller's sorted input slice
    pgPage,     \* the page used for the next call (or the nil page)
    pgMode,     \* how the caller derives the continuation page
    pgOut,      \* the concatenation of the pages returned so far
    pgCalls,    \* number of paging calls made
    pgDone,     \* the iteration has stopped (continuation page was nil)
    pgArg,      \* the value handed to the last Next / Prev
    pgDerived,  \* the page the last Next / Prev / New returned
    \* ---- caches ----
    ckind,      \* which entity cache this is
    centries,   \* Cache.cache: key -> entry (value, expiry) or none
    cheld,      \* the object a caller holds a pointer to, and whether the
                \* entry of a key points to the same object
    cnow,       \* cacheClock.Now()
    cstore,     \* the storage table behind the cache: key -> row or none
    cres,       \* the last cache operation and its result
    clast,      \* per key: the last operation that touched its entry
    \* ---- worker pool ----
    pprocess,   \* WorkerPool.process is set
    pstarted,   \* the underlying pool is running
    pout,       \* per message: what the processor does with it
    pqueue,     \* the runner's queue of tasks (message numbers)
    pwork,      \* per worker: the message whose task it is running, or 0
    pdone,      \* per message: number of times the processor was called
    plog,       \* messages the pool logged an error for, in order
    pcrashed,   \* a panic left a worker goroutine
    pret,       \* value returned by the last Start
    \* ---- indexed entity cache (StatusCache / AccountCache) ----
    lcache,     \* Cache.cache: ID -> entry (value, expiry) or none
    luris,      \* the uris map: URI -> ID
    lurls,      \* the urls map: URL -> ID
    lnow,       \* cacheClock.Now()
    lres,       \* the last operation, its result and the hooks it called
    \* ---- status mutes ----
    mthread,    \* the thread of the status: none, not muted, muted by the requester
    mmutes,     \* the requester's user mutes of accounts related to the status
    mcached,    \* the mutes cache entry of (requester, status), or none
    mnow,       \* time.Now()
    mres,       \* the last call of the mutes filter and what it returned
    mcall,      \* per caller: the call of the filter whose loader has run
    \* ---- outgoing HTTP client ----
    hcmax,      \* Client.cmax: the MaxOpenConns of the configuration
    \* ---- concurrent callers of the block cache ----
    crace,      \* per caller: where its GetBlock, PutBlock, DeleteBlockByID is
    \* ---- the TTL of a cache ----
    cttl,       \* Cache.ttl
    \* ---- client API processors ----
    xdb,        \* the blocks, follows, follow requests and faves tables
    xqueue,     \* the messages handed to EnqueueClientAPI, in order
    xcalls,     \* per caller: where its call of a processor is
    xres,       \* the calls begun and the last one that returned
    \* ---- account mutes ----
    nmutes,     \* per account: the requester's mute of it, or none
    nnow,       \* time.Now()
    nres,       \* the last call of NotifyFromAccount and what it returned
    \* ---- the queue cache of the HTTP client ----
    qcached,    \* the host's queue is in the cache
    qidle,      \* request timeouts since the last getQueue for the host
    qphase,     \* request timeouts since the last sweep of the cache
    qcur,       \* the calls waiting for and holding a slot of the cached queue
    qold        \* the same for the queue the sweep dropped

fediVars == <<stored, inflight, effects, returns>>
pageVars == <<pgIn, pgPage, pgMode, pgOut, pgCalls, pgDone, pgArg, pgDerived>>
cacheVars == <<ckind, centries, cheld, cnow, cstore, cres, clast>>
poolVars == <<pprocess, pstarted, pout, pqueue, pwork, pdone, plog,
              pcrashed, pret>>
lookupVars == <<lcache, luris, lurls, lnow, lres>>
muteVars == <<mthread, mmutes, mcached, mnow, mres, mcall>>
clientVars == <<hcmax>>
raceVars == <<crace>>
ttlVars == <<cttl>>
procVars == <<xdb, xqueue, xcalls, xres>>
notifyVars == <<nmutes, nnow, nres>>
queueVars == <<qcached, qidle, qphase, qcur, qold>>
vars == <<fediVars, pageVars, cacheVars, poolVars, lookupVars, muteVars,
          clientVars, raceVars, ttlVars,
      procVars,
      notifyVars,
      queueVars>>

\* The variables of every subsystem but one.
exceptFedi ==
    <<pageVars, cacheVars, poolVars, lookupVars, muteVars, clientVars,
      raceVars, ttlVars,
      procVars,
      notifyVars,
      queueVars>>
exceptPaging ==
    <<fediVars, cacheVars, poolVars, lookupVars, muteVars, clientVars,
      raceVars, ttlVars,
      procVars,
      notifyVars,
      queueVars>>
exceptCache ==
    <<fediVars, pageVars, poolVars, lookupVars, muteVars, clientVars,
      raceVars, ttlVars,
      procVars,
      notifyVars,
      queueVars>>
exceptPool ==
    <<fediVars, pageVars, cacheVars, lookupVars, muteVars, clientVars,
      raceVars, ttlVars,
      procVars,
      notifyVars,
      queueVars>>
exceptLookup ==
    <<fediVars, pageVars, cacheVars, poolVars, muteVars, clientVars,
      raceVars, ttlVars,
      procVars,
      notifyVars,
      queueVars>>
exceptMutes ==
    <<fediVars, pageVars, cacheVars, poolVars, lookupVars, clientVars,
      raceVars, ttlVars,
      procVars,
      notifyVars,
      queueVars>>
exceptRace ==
    <<fediVars, pageVars, poolVars, lookupVars, muteVars, clientVars,
      ttlVars,
      procVars,
      notifyVars,
      queueVars>>
\* The variables the callers of SetTTL leave alone.
exceptTTL ==
    <<fediVars, pageVars, poolVars, lookupVars, muteVars, clientVars,
      raceVars,
      procVars,
      notifyVars,
      queueVars>>
\* The variables the client API processors leave alone.
exceptProc ==
    <<fediVars, pageVars, cacheVars, poolVars, lookupVars, muteVars,
      clientVars, raceVars, ttlVars,
      notifyVars,
      queueVars>>
\* The variables the account mutes filter leaves alone.
exceptNotify ==
    <<fediVars, pageVars, cacheVars, poolVars, lookupVars, muteVars,
      clientVars, raceVars, ttlVars,
      procVars,
      queueVars>>
\* The variables the queue cache of the HTTP client leaves alone.
exceptQueue ==
    <<fediVars, pageVars, cacheVars, poolVars, lookupVars, muteVars,
      clientVars, raceVars, ttlVars,
      procVars, notifyVars>>

-----------------------------------------------------------------------------
(* Bounds of the model.                                                    *)

\* Dispatches per behaviour of the concurrent dispatcher specification.
MaxDispatch == 2
\* Collaborator calls that may be made to fail within one dispatch.
MaxFail == 1
\* Times per behaviour a handler waiting on a collaborator is overtaken:
\* the other worker makes calls of its own and the handler then goes on
\* while the other worker is still inside its handler.
MaxResume == 1

-----------------------------------------------------------------------------
(*                       THE FEDERATION DISPATCHER                         *)
(*            internal/processing/workers/fromfediapi.go                   *)

\* Activity and object type tags a message may carry.  The last activity
\* and the last object type have no entry in the routing switch.
Activities == {"Create", "Update", "Accept", "Delete", "Move", "Undo"}
ObjectTypes == {"Note", "Follow", "Like", "Announce", "Block", "Flag",
                "Question", "Person", "Profile"}

\* The handlers of fediAPI.
Handlers == {"CreateStatus", "CreateFollowReq", "CreateLike",
             "CreateAnnounce", "CreateBlock", "CreateFlag", "CreatePollVote",
             "UpdateStatus", "UpdateAccount", "AcceptFollow", "AcceptLike",
             "AcceptReply", "AcceptAnnounce", "DeleteStatus",
             "DeleteAccount", "MoveAccount"}

\* A message with every optional part unset.
BaseMsg ==
    [act |-> "Create", obj |-> "Note",
     id |-> "s1",          \* identifier (URI) of the object the message is about
     apobj |-> "nil",      \* APObject: "nil" or the interface it satisfies
     iri |-> FALSE,        \* APIRI != nil
     model |-> "nil",      \* dynamic type of GTSModel
     pending |-> FALSE,    \* PendingApproval of the status / fave / boost
     pre |-> FALSE,        \* PreApproved of the status / fave / boost
     reply |-> FALSE,      \* InReplyToID != ""
     locked |-> FALSE,     \* TargetAccount.Locked of the follow request
     local |-> FALSE,      \* Status.Local of the poll's status
     closing |-> FALSE]    \* Poll != nil && Poll.Closing of the updated status

\* The identifier of the status a reply / fave / boost targets.
ParentID == "p1"

\* One side effect: handler h called collaborator operation e about id;
\* ok tells whether the call succeeded.  A logged error is the effect
\* "log.Errorf" whose id names the failed call.
Eff(h, e, id, ok) == [h |-> h, e |-> e, id |-> id, ok |-> ok]

\* The result of a handler (or of a part of one): the value returned
\* ("nil", "error", "panic"), the calls made and the statuses table.
Res(ret, log, db) == [ret |-> ret, log |-> log, db |-> db]

\* if err := <call e>; err != nil { log.Errorf(...) }
\* A call in the fault set F fails; the failure is logged and processing
\* continues.
TryLog(h, e, id, F) ==
    IF e \in F THEN <<Eff(h, e, id, FALSE), Eff(h, "log.Errorf", e, TRUE)>>
    ELSE <<Eff(h, e, id, TRUE)>>

\* A call that cannot fail (no error result).
Do(h, e, id) == <<Eff(h, e, id, TRUE)>>

\* ---- the statuses table and the dereferencer ----

NoRow == [n |-> 0, pending |-> FALSE, pre |-> FALSE, reply |-> FALSE]
RowOf(m) == [n |-> 1, pending |-> m.pending, pre |-> m.pre, reply |-> m.reply]
StatusIDs == {"s1"}
EmptyDB == [i \in StatusIDs |-> NoRow]

\* The kind of error a dereference returns under fault set F.
DerefErr(F) ==
    IF "deref:unretrievable" \in F THEN "unretrievable"
    ELSE IF "deref:notpermitted" \in F THEN "notpermitted"
    ELSE IF "deref:error" \in F THEN "error"
    ELSE "nil"

\* federate.RefreshStatus / federate.GetStatusByURI: resolve the status of
\* message m.  The status is inserted if it is not stored yet; when it is
\* already stored (another delivery created it) the stored status comes
\* back with no statusable ("no object").
RefreshStatus(m, db, F) ==
    IF DerefErr(F) # "nil"
    THEN [err |-> DerefErr(F), status |-> NoRow, statusable |-> FALSE, db |-> db]
    ELSE IF db[m.id].n > 0
    THEN [err |-> "nil", status |-> db[m.id], statusable |-> FALSE, db |-> db]
    ELSE [err |-> "nil", status |-> RowOf(m), statusable |-> TRUE,
          db |-> [db EXCEPT ![m.id] = RowOf(m)]]

\* ---- handlers ----

\* The first half of CreateStatus, up to and including the check of the
\* statusable: done tells whether the handler has returned.
CreateStatusResolve_NoNilCheck(m, db, F) ==
    IF m.apobj # "nil" /\ m.apobj # "Statusable"
    THEN [done |-> TRUE, ret |-> "error", log |-> <<>>, db |-> db, status |-> NoRow]
    ELSE IF m.apobj = "nil" /\ ~m.iri
    THEN [done |-> TRUE, ret |-> "error", log |-> <<>>, db |-> db, status |-> NoRow]
    ELSE LET e == IF m.apobj # "nil" THEN "RefreshStatus" ELSE "GetStatusByURI"
             r == RefreshStatus(m, db, F)
         IN IF r.err # "nil"
            THEN [done |-> TRUE, ret |-> "error", db |-> db, status |-> NoRow,
                  log |-> <<Eff("CreateStatus", e, m.id, FALSE)>>]
            ELSE [done |-> FALSE, ret |-> "nil", db |-> r.db, status |-> r.status,
                  log |-> <<Eff("CreateStatus", e, m.id, TRUE)>>]

CreateStatusResolve(m, db, F) ==
    IF m.apobj # "nil" /\ m.apobj # "Statusable"
    THEN \* cannot cast APObject -> ap.Statusable
         [done |-> TRUE, ret |-> "error", log |-> <<>>, db |-> db, status |-> NoRow]
    ELSE IF m.apobj = "nil" /\ ~m.iri
    THEN \* neither APObjectModel nor APIri set
         [done |-> TRUE, ret |-> "error", log |-> <<>>, db |-> db, status |-> NoRow]
    ELSE LET e == IF m.apobj # "nil" THEN "RefreshStatus" ELSE "GetStatusByURI"
             r == RefreshStatus(m, db, F)
         IN IF r.err # "nil"
            THEN [done |-> TRUE, ret |-> "error", db |-> db, status |-> NoRow,
                  log |-> <<Eff("CreateStatus", e, m.id, FALSE)>>]
            ELSE IF ~r.statusable
            THEN \* another thread beat us to creating this status
                 [done |-> TRUE, ret |-> "nil", db |-> r.db, status |-> r.status,
                  log |-> <<Eff("CreateStatus", e, m.id, TRUE)>>]
            ELSE [done |-> FALSE, ret |-> "nil", db |-> r.db, status |-> r.status,
                  log |-> <<Eff("CreateStatus", e, m.id, TRUE)>>]

PreApprove_AcceptFirst(h, approve, id, F) ==
    IF "AcceptInteraction" \in F
    THEN [ret |-> "error", log |-> <<Eff(h, "AcceptInteraction", id, FALSE)>>]
    ELSE IF approve \in F
    THEN [ret |-> "error", log |-> <<Eff(h, "AcceptInteraction", id, TRUE),
                                      Eff(h, approve, id, FALSE)>>]
    ELSE [ret |-> "nil", log |-> <<Eff(h, "AcceptInteraction", id, TRUE),
                                    Eff(h, approve, id, TRUE)>>]

\* The pre-approval of the three Create handlers: write the approval, then
\* send the Accept; either failing makes the handler return the error.
PreApprove(h, approve, id, F) ==
    IF approve \in F
    THEN [ret |-> "error", log |-> <<Eff(h, approve, id, FALSE)>>]
    ELSE IF "AcceptInteraction" \in F
    THEN [ret |-> "error", log |-> <<Eff(h, approve, id, TRUE),
                                      Eff(h, "AcceptInteraction", id, FALSE)>>]
    ELSE [ret |-> "nil", log |-> <<Eff(h, approve, id, TRUE),
                                    Eff(h, "AcceptInteraction", id, TRUE)>>]

\* The normal processing of a new status: stats, ancestor, timelines.
CreateStatusSideEffects(id, st, F) ==
    TryLog("CreateStatus", "incrementStatusesCount", id, F)
    \o (IF st.reply
        THEN Do("CreateStatus", "invalidateStatusFromTimelines", ParentID)
        ELSE <<>>)
    \o TryLog("CreateStatus", "timelineAndNotifyStatus", id, F)

CreateStatusRest_NoReturn(id, st, F) ==
    IF st.pending /\ ~st.pre
    THEN [ret |-> "nil",
          log |-> TryLog("CreateStatus", "notifyPendingReply", id, F)
                  \o CreateStatusSideEffects(id, st, F)]
    ELSE IF st.pending /\ st.pre
    THEN LET a == PreApprove("CreateStatus", "approveReply", id, F)
         IN IF a.ret # "nil" THEN a
            ELSE [ret |-> "nil",
                  log |-> a.log \o CreateStatusSideEffects(id, st, F)]
    ELSE [ret |-> "nil", log |-> CreateStatusSideEffects(id, st, F)]

\* The second half of CreateStatus, for the resolved status st.
CreateStatusRest(id, st, F) ==
    IF st.pending /\ ~st.pre
    THEN [ret |-> "nil",
          log |-> TryLog("CreateStatus", "notifyPendingReply", id, F)]
    ELSE IF st.pending /\ st.pre
    THEN LET a == PreApprove("CreateStatus", "approveReply", id, F)
         IN IF a.ret # "nil" THEN a
            ELSE [ret |-> "nil",
                  log |-> a.log \o CreateStatusSideEffects(id, st, F)]
    ELSE [ret |-> "nil", log |-> CreateStatusSideEffects(id, st, F)]

\* CreateStatus as one call.
CreateStatus(m, db, F) ==
    LET r == CreateStatusResolve(m, db, F)
    IN IF r.done THEN Res(r.ret, r.log, r.db)
       ELSE LET t == CreateStatusRest(m.id, r.status, F)
            IN Res(t.ret, r.log \o t.log, r.db)

\* h's type assertion on GTSModel fails.
BadCast(m, type) == m.model # type

CreatePollVote(m, db, F) ==
    LET h == "CreatePollVote" IN
    IF BadCast(m, "PollVote") THEN Res("error", <<>>, db)
    ELSE IF "PutPollVote" \in F
    THEN Res("error", <<Eff(h, "PutPollVote", m.id, FALSE)>>, db)
    ELSE IF "PopulatePollVote" \in F
    THEN Res("error", <<Eff(h, "PutPollVote", m.id, TRUE),
                        Eff(h, "PopulatePollVote", m.id, FALSE)>>, db)
    ELSE IF "PopulatePoll" \in F
    THEN Res("error", <<Eff(h, "PutPollVote", m.id, TRUE),
                        Eff(h, "PopulatePollVote", m.id, TRUE),
                        Eff(h, "PopulatePoll", m.id, FALSE)>>, db)
    ELSE Res("nil",
             <<Eff(h, "PutPollVote", m.id, TRUE),
               Eff(h, "PopulatePollVote", m.id, TRUE),
               Eff(h, "PopulatePoll", m.id, TRUE)>>
             \o Do(h, "invalidateStatusFromTimelines", ParentID)
             \o (IF m.local
                 THEN Do(h, "IncrementVotes", m.id)
                      \o TryLog(h, "federate.UpdateStatus", ParentID, F)
                 ELSE <<>>),
             db)

CreateFollowReq_IgnoreLocked(m, db, F) ==
    LET h == "CreateFollowReq" IN
    IF BadCast(m, "FollowRequest") THEN Res("error", <<>>, db)
    ELSE IF "PopulateFollowRequest" \in F
    THEN Res("error", <<Eff(h, "PopulateFollowRequest", m.id, FALSE)>>, db)
    ELSE IF "AcceptFollowRequest" \in F
    THEN Res("error", <<Eff(h, "PopulateFollowRequest", m.id, TRUE),
                        Eff(h, "AcceptFollowRequest", m.id, FALSE)>>, db)
    ELSE Res("nil",
             <<Eff(h, "PopulateFollowRequest", m.id, TRUE),
               Eff(h, "AcceptFollowRequest", m.id, TRUE)>>
             \o TryLog(h, "incrementFollowersCount", "receiving", F)
             \o TryLog(h, "incrementFollowingCount", "requesting", F)
             \o TryLog(h, "federate.AcceptFollow", m.id, F)
             \o TryLog(h, "notifyFollow", m.id, F),
             db)

CreateFollowReq(m, db, F) ==
    LET h == "CreateFollowReq" IN
    IF BadCast(m, "FollowRequest") THEN Res("error", <<>>, db)
    ELSE IF "PopulateFollowRequest" \in F
    THEN Res("error", <<Eff(h, "PopulateFollowRequest", m.id, FALSE)>>, db)
    ELSE IF m.locked
    THEN Res("nil",
             Do(h, "PopulateFollowRequest", m.id)
             \o TryLog(h, "notifyFollowRequest", m.id, F)
             \o TryLog(h, "incrementFollowRequestsCount", "receiving", F),
             db)
    ELSE IF "AcceptFollowRequest" \in F
    THEN Res("error", <<Eff(h, "PopulateFollowRequest", m.id, TRUE),
                        Eff(h, "AcceptFollowRequest", m.id, FALSE)>>, db)
    ELSE Res("nil",
             <<Eff(h, "PopulateFollowRequest", m.id, TRUE),
               Eff(h, "AcceptFollowRequest", m.id, TRUE)>>
             \o TryLog(h, "incrementFollowersCount", "receiving", F)
             \o TryLog(h, "incrementFollowingCount", "requesting", F)
             \o TryLog(h, "federate.AcceptFollow", m.id, F)
             \o TryLog(h, "notifyFollow", m.id, F),
             db)

CreateLike_NoInvalidate(m, db, F) ==
    LET h == "CreateLike" IN
    IF BadCast(m, "StatusFave") THEN Res("error", <<>>, db)
    ELSE IF "PopulateStatusFave" \in F
    THEN Res("error", <<Eff(h, "PopulateStatusFave", m.id, FALSE)>>, db)
    ELSE LET p == Do(h, "PopulateStatusFave", m.id)
             rest == TryLog(h, "notifyFave", m.id, F)
         IN IF m.pending /\ ~m.pre
            THEN Res("nil", p \o TryLog(h, "notifyPendingFave", m.id, F), db)
            ELSE IF m.pending /\ m.pre
            THEN LET a == PreApprove(h, "approveFave", m.id, F)
                 IN IF a.ret # "nil" THEN Res(a.ret, p \o a.log, db)
                    ELSE Res("nil", p \o a.log \o rest, db)
            ELSE Res("nil", p \o rest, db)

CreateLike(m, db, F) ==
    LET h == "CreateLike" IN
    IF BadCast(m, "StatusFave") THEN Res("error", <<>>, db)
    ELSE IF "PopulateStatusFave" \in F
    THEN Res("error", <<Eff(h, "PopulateStatusFave", m.id, FALSE)>>, db)
    ELSE LET p == Do(h, "PopulateStatusFave", m.id)
             rest == TryLog(h, "notifyFave", m.id, F)
                     \o Do(h, "invalidateStatusFromTimelines", ParentID)
         IN IF m.pending /\ ~m.pre
            THEN Res("nil", p \o TryLog(h, "notifyPendingFave", m.id, F), db)
            ELSE IF m.pending /\ m.pre
            THEN LET a == PreApprove(h, "approveFave", m.id, F)
                 IN IF a.ret # "nil" THEN Res(a.ret, p \o a.log, db)
                    ELSE Res("nil", p \o a.log \o rest, db)
            ELSE Res("nil", p \o rest, db)

CreateAnnounce(m, db, F) ==
    LET h == "CreateAnnounce" IN
    IF BadCast(m, "Status") THEN Res("error", <<>>, db)
    ELSE IF DerefErr(F) \in {"unretrievable", "notpermitted"}
    THEN \* boosted status domain blocked or not permitted: nothing to do
         Res("nil", <<Eff(h, "EnrichAnnounce", m.id, FALSE)>>, db)
    ELSE IF DerefErr(F) # "nil"
    THEN Res("error", <<Eff(h, "EnrichAnnounce", m.id, FALSE)>>, db)
    ELSE LET p == Do(h, "EnrichAnnounce", m.id)
             rest == TryLog(h, "incrementStatusesCount", m.id, F)
                     \o TryLog(h, "timelineAndNotifyStatus", m.id, F)
                     \o TryLog(h, "notifyAnnounce", m.id, F)
                     \o Do(h, "invalidateStatusFromTimelines", ParentID)
         IN IF m.pending /\ ~m.pre
            THEN Res("nil", p \o TryLog(h, "notifyPendingAnnounce", m.id, F), db)
            ELSE IF m.pending /\ m.pre
            THEN LET a == PreApprove(h, "approveAnnounce", m.id, F)
                 IN IF a.ret # "nil" THEN Res(a.ret, p \o a.log, db)
                    ELSE Res("nil", p \o a.log \o rest, db)
            ELSE Res("nil", p \o rest, db)

\* The cleanup steps of CreateBlock, in the order of the code.  "fwd" is
\* (block.AccountID, block.TargetAccountID), "rev" the reverse.
BlockSteps ==
    <<"Home.WipeItemsFromAccountID:fwd", "Home.WipeItemsFromAccountID:rev",
      "List.WipeItemsFromAccountID:fwd", "List.WipeItemsFromAccountID:rev",
      "DeleteFollow:fwd", "DeleteFollow:rev",
      "DeleteFollowRequest:fwd", "DeleteFollowRequest:rev">>

BlockCleanup_Abort(i, id, F) ==
    LET fails == {j \in i..Len(BlockSteps) : BlockSteps[j] \in F}
        stop == IF fails = {} THEN Len(BlockSteps)
                ELSE CHOOSE j \in fails : \A k \in fails : j <= k
    IN [j \in 1..(stop - i + 1) |->
            Eff("CreateBlock", BlockSteps[i + j - 1], id,
                BlockSteps[i + j - 1] \notin F)]
       \o (IF fails = {} THEN <<>>
           ELSE <<Eff("CreateBlock", "log.Errorf", BlockSteps[stop], TRUE)>>)

RECURSIVE BlockCleanup(_, _, _)
\* Steps i.. of CreateBlock: each is attempted, a failure only logged.
BlockCleanup(i, id, F) ==
    IF i > Len(BlockSteps) THEN <<>>
    ELSE TryLog("CreateBlock", BlockSteps[i], id, F) \o BlockCleanup(i + 1, id, F)

CreateBlock(m, db, F) ==
    IF BadCast(m, "Block") THEN Res("error", <<>>, db)
    ELSE Res("nil", BlockCleanup(1, m.id, F), db)

CreateFlag(m, db, F) ==
    IF BadCast(m, "Report") THEN Res("error", <<>>, db)
    ELSE Res("nil", TryLog("CreateFlag", "emailAdminReportOpened", m.id, F), db)

UpdateAccount(m, db, F) ==
    IF BadCast(m, "Account") THEN Res("error", <<>>, db)
    ELSE IF m.apobj # "Accountable" THEN Res("error", <<>>, db)
    ELSE Res("nil", TryLog("UpdateAccount", "RefreshAccount", m.id, F), db)

AcceptFollow(m, db, F) ==
    LET h == "AcceptFollow" IN
    Res("nil",
        TryLog(h, "decrementFollowRequestsCount", "requesting", F)
        \o TryLog(h, "incrementFollowersCount", "requesting", F)
        \o TryLog(h, "incrementFollowingCount", "receiving", F),
        db)

AcceptLike(m, db, F) == Res("nil", <<>>, db)

AcceptReply(m, db, F) ==
    LET h == "AcceptReply" IN
    IF BadCast(m, "Status") THEN Res("error", <<>>, db)
    ELSE Res("nil",
             TryLog(h, "incrementStatusesCount", m.id, F)
             \o TryLog(h, "timelineAndNotifyStatus", m.id, F)
             \o Do(h, "invalidateStatusFromTimelines", ParentID)
             \o TryLog(h, "federate.CreateStatus", m.id, F),
             db)

AcceptAnnounce(m, db, F) ==
    LET h == "AcceptAnnounce" IN
    IF BadCast(m, "Status") THEN Res("error", <<>>, db)
    ELSE Res("nil",
             TryLog(h, "incrementStatusesCount", m.id, F)
             \o TryLog(h, "timelineAndNotifyStatus", m.id, F)
             \o Do(h, "invalidateStatusFromTimelines", ParentID)
             \o TryLog(h, "federate.Announce", m.id, F),
             db)

\* RefreshStatus failing leaves status nil; the error is only logged and
\* the next statement reads status.ID.
UpdateStatus(m, db, F) ==
    LET h == "UpdateStatus" IN
    IF BadCast(m, "Status") THEN Res("error", <<>>, db)
    ELSE IF DerefErr(F) # "nil"
    THEN Res("panic", <<Eff(h, "RefreshStatus", m.id, FALSE),
                        Eff(h, "log.Errorf", "RefreshStatus", TRUE)>>, db)
    ELSE Res("nil",
             Do(h, "RefreshStatus", m.id)
             \o Do(h, "invalidateStatusFromTimelines", m.id)
             \o (IF m.closing THEN TryLog(h, "notifyPollClose", m.id, F) ELSE <<>>)
             \o TryLog(h, "timelineStatusUpdate", m.id, F),
             db)

\* The purge of queued messages about uri from the three worker queues.
PurgeStatusQueues(h, uri) ==
    <<Eff(h, "Delivery.Queue.Delete:ObjectID", uri, TRUE),
      Eff(h, "Delivery.Queue.Delete:TargetID", uri, TRUE),
      Eff(h, "Client.Queue.Delete:TargetURI", uri, TRUE),
      Eff(h, "Federator.Queue.Delete:TargetURI", uri, TRUE)>>

DeleteStatus_WipeFirst(m, db, F) ==
    LET h == "DeleteStatus" IN
    IF BadCast(m, "Status") THEN Res("error", <<>>, db)
    ELSE IF "PopulateStatus" \in F
    THEN Res("error", <<Eff(h, "PopulateStatus", m.id, FALSE)>>, db)
    ELSE Res("nil",
             <<Eff(h, "PopulateStatus", m.id, "PopulateStatus:ErrNoEntries" \notin F)>>
             \o TryLog(h, "wipeStatus", m.id, F)
             \o PurgeStatusQueues(h, m.id)
             \o TryLog(h, "decrementStatusesCount", "requesting", F)
             \o (IF m.reply THEN Do(h, "invalidateStatusFromTimelines", ParentID)
                 ELSE <<>>),
             IF "wipeStatus" \in F \/ m.id \notin StatusIDs THEN db
             ELSE [db EXCEPT ![m.id] = NoRow])

DeleteStatus(m, db, F) ==
    LET h == "DeleteStatus" IN
    IF BadCast(m, "Status") THEN Res("error", <<>>, db)
    ELSE IF "PopulateStatus" \in F
    THEN Res("error", <<Eff(h, "PopulateStatus", m.id, FALSE)>>, db)
    ELSE Res("nil",
             <<Eff(h, "PopulateStatus", m.id, "PopulateStatus:ErrNoEntries" \notin F)>>
             \o PurgeStatusQueues(h, m.id)
             \o TryLog(h, "wipeStatus", m.id, F)
             \o TryLog(h, "decrementStatusesCount", "requesting", F)
             \o (IF m.reply THEN Do(h, "invalidateStatusFromTimelines", ParentID)
                 ELSE <<>>),
             IF "wipeStatus" \in F \/ m.id \notin StatusIDs THEN db
             ELSE [db EXCEPT ![m.id] = NoRow])

DeleteAccount(m, db, F) ==
    LET h == "DeleteAccount" IN
    IF BadCast(m, "Account") THEN Res("error", <<>>, db)
    ELSE Res("nil",
             <<Eff(h, "Delivery.Queue.Delete:ObjectID", m.id, TRUE),
               Eff(h, "Delivery.Queue.Delete:TargetID", m.id, TRUE),
               Eff(h, "Client.Queue.Delete:Target.ID", m.id, TRUE),
               Eff(h, "Client.Queue.Delete:TargetURI", m.id, TRUE),
               Eff(h, "Federator.Queue.Delete:Requesting.ID", m.id, TRUE),
               Eff(h, "Federator.Queue.Delete:TargetURI", m.id, TRUE)>>
             \o TryLog(h, "account.Delete", m.id, F),
             db)

\* fromfediapi_move.go: an opaque operation.
MoveAccount(m, db, F) ==
    Res(IF "MoveAccount" \in F THEN "error" ELSE "nil",
        <<Eff("MoveAccount", "MoveAccount", m.id, "MoveAccount" \notin F)>>, db)

\* ---- routing ----

Route_NoPollVote(act, obj) ==
    CASE act = "Create" ->
            (CASE obj = "Note" -> "CreateStatus"
               [] obj = "Follow" -> "CreateFollowReq"
               [] obj = "Like" -> "CreateLike"
               [] obj = "Announce" -> "CreateAnnounce"
               [] obj = "Block" -> "CreateBlock"
               [] obj = "Flag" -> "CreateFlag"
               [] OTHER -> "unhandled")
      [] act = "Update" ->
            (CASE obj = "Note" -> "UpdateStatus"
               [] obj = "Person" -> "UpdateAccount"
               [] OTHER -> "unhandled")
      [] act = "Accept" ->
            (CASE obj = "Follow" -> "AcceptFollow"
               [] obj = "Like" -> "AcceptLike"
               [] obj = "Note" -> "AcceptReply"
               [] obj = "Announce" -> "AcceptAnnounce"
               [] OTHER -> "unhandled")
      [] act = "Delete" ->
            (CASE obj = "Note" -> "DeleteStatus"
               [] obj = "Person" -> "DeleteAccount"
               [] OTHER -> "unhandled")
      [] act = "Move" ->
            (IF obj = "Person" THEN "MoveAccount" ELSE "unhandled")
      [] OTHER -> "unhandled"

\* The nested switch of ProcessFromFediAPI: the handler of (act, obj), or
\* "unhandled" when the switch falls through to the final return.
Route(act, obj) ==
    CASE act = "Create" ->
            (CASE obj = "Note" -> "CreateStatus"
               [] obj = "Follow" -> "CreateFollowReq"
               [] obj = "Like" -> "CreateLike"
               [] obj = "Announce" -> "CreateAnnounce"
               [] obj = "Block" -> "CreateBlock"
               [] obj = "Flag" -> "CreateFlag"
               [] obj = "Question" -> "CreatePollVote"
               [] OTHER -> "unhandled")
      [] act = "Update" ->
            (CASE obj = "Note" -> "UpdateStatus"
               [] obj = "Person" -> "UpdateAccount"
               [] OTHER -> "unhandled")
      [] act = "Accept" ->
            (CASE obj = "Follow" -> "AcceptFollow"
               [] obj = "Like" -> "AcceptLike"
               [] obj = "Note" -> "AcceptReply"
               [] obj = "Announce" -> "AcceptAnnounce"
               [] OTHER -> "unhandled")
      [] act = "Delete" ->
            (CASE obj = "Note" -> "DeleteStatus"
               [] obj = "Person" -> "DeleteAccount"
               [] OTHER -> "unhandled")
      [] act = "Move" ->
            (IF obj = "Person" THEN "MoveAccount" ELSE "unhandled")
      [] OTHER -> "unhandled"

\* The call of handler h.
Handle(h, m, db, F) ==
    CASE h = "CreateStatus" -> CreateStatus(m, db, F)
      [] h = "CreateFollowReq" -> CreateFollowReq(m, db, F)
      [] h = "CreateLike" -> CreateLike(m, db, F)
      [] h = "CreateAnnounce" -> CreateAnnounce(m, db, F)
      [] h = "CreateBlock" -> CreateBlock(m, db, F)
      [] h = "CreateFlag" -> CreateFlag(m, db, F)
      [] h = "CreatePollVote" -> CreatePollVote(m, db, F)
      [] h = "UpdateStatus" -> UpdateStatus(m, db, F)
      [] h = "UpdateAccount" -> UpdateAccount(m, db, F)
      [] h = "AcceptFollow" -> AcceptFollow(m, db, F)
      [] h = "AcceptLike" -> AcceptLike(m, db, F)
      [] h = "AcceptReply" -> AcceptReply(m, db, F)
      [] h = "AcceptAnnounce" -> AcceptAnnounce(m, db, F)
      [] h = "DeleteStatus" -> DeleteStatus(m, db, F)
      [] h = "DeleteAccount" -> DeleteAccount(m, db, F)
      [] h = "MoveAccount" -> MoveAccount(m, db, F)

\* ProcessFromFediAPI as one call: the handlers invoked, the value
\* returned, the calls made and the statuses table afterwards.
ProcessFromFediAPI(m, db, F) ==
    LET h == Route(m.act, m.obj)
    IN IF h = "unhandled"
       THEN [called |-> <<>>, ret |-> "error:unhandled", log |-> <<>>, db |-> db]
       ELSE LET r == Handle(h, m, db, F)
            IN [called |-> <<h>>, ret |-> r.ret, log |-> r.log, db |-> r.db]

\* ---- messages and faults ----

\* The collaborator calls of handler h that can return an error.
StepsOf(h) ==
    CASE h = "CreateStatus" ->
            {"deref:unretrievable", "deref:notpermitted", "deref:error",
             "notifyPendingReply", "approveReply", "AcceptInteraction",
             "incrementStatusesCount", "timelineAndNotifyStatus"}
      [] h = "CreateFollowReq" ->
            {"PopulateFollowRequest", "notifyFollowRequest",
             "incrementFollowRequestsCount", "AcceptFollowRequest",
             "incrementFollowersCount", "incrementFollowingCount",
             "federate.AcceptFollow", "notifyFollow"}
      [] h = "CreateLike" ->
            {"PopulateStatusFave", "notifyPendingFave", "approveFave",
             "AcceptInteraction", "notifyFave"}
      [] h = "CreateAnnounce" ->
            {"deref:unretrievable", "deref:notpermitted", "deref:error",
             "notifyPendingAnnounce", "approveAnnounce", "AcceptInteraction",
             "incrementStatusesCount", "timelineAndNotifyStatus",
             "notifyAnnounce"}
      [] h = "CreateBlock" -> {BlockSteps[i] : i \in 1..Len(BlockSteps)}
      [] h = "CreateFlag" -> {"emailAdminReportOpened"}
      [] h = "CreatePollVote" ->
            {"PutPollVote", "PopulatePollVote", "PopulatePoll",
             "federate.UpdateStatus"}
      [] h = "UpdateStatus" ->
            {"deref:error", "notifyPollClose", "timelineStatusUpdate"}
      [] h = "UpdateAccount" -> {"RefreshAccount"}
      [] h = "AcceptFollow" ->
            {"decrementFollowRequestsCount", "incrementFollowersCount",
             "incrementFollowingCount"}
      [] h = "AcceptReply" ->
            {"incrementStatusesCount", "timelineAndNotifyStatus",
             "federate.CreateStatus"}
      [] h = "AcceptAnnounce" ->
            {"incrementStatusesCount", "timelineAndNotifyStatus",
             "federate.Announce"}
      [] h = "DeleteStatus" ->
            {"PopulateStatus", "PopulateStatus:ErrNoEntries", "wipeStatus",
             "decrementStatusesCount"}
      [] h = "DeleteAccount" -> {"account.Delete"}
      [] h = "MoveAccount" -> {"MoveAccount"}
      [] OTHER -> {}

\* The fault sets a dispatch to handler h is run under.
FaultSets(h) == {F \in SUBSET StepsOf(h) : Cardinality(F) <= MaxFail}

\* The approval attributes of a reply / fave / boost.
Approvals ==
    {[pending |-> p, pre |-> q] : p \in BOOLEAN, q \in BOOLEAN}

\* The remote notes a Create-Note can be about: only a reply can be pending.
Notes ==
    {n \in [pending : BOOLEAN, pre : BOOLEAN, reply : BOOLEAN] :
        n.pending => n.reply}

\* The GTSModel type handler h asserts, and the identifier of the object.
ModelOf(h) ==
    CASE h \in {"CreateAnnounce", "UpdateStatus", "AcceptReply",
                "AcceptAnnounce", "DeleteStatus"} -> "Status"
      [] h = "CreateFollowReq" -> "FollowRequest"
      [] h = "CreateLike" -> "StatusFave"
      [] h = "CreateBlock" -> "Block"
      [] h = "CreateFlag" -> "Report"
      [] h = "CreatePollVote" -> "PollVote"
      [] h \in {"UpdateAccount", "DeleteAccount"} -> "Account"
      [] OTHER -> "nil"

ObjectIDOf(obj) ==
    CASE obj = "Note" -> "s1"
      [] obj = "Follow" -> "fr1"
      [] obj = "Like" -> "f1"
      [] obj = "Announce" -> "b1"
      [] obj = "Block" -> "bl1"
      [] obj = "Flag" -> "r1"
      [] obj = "Question" -> "v1"
      [] OTHER -> "a1"

\* The well-formed message of (act, obj): the one the federating
\* boundary builds for its handler.
WellFormed(act, obj) ==
    LET h == Route(act, obj)
    IN [BaseMsg EXCEPT !.act = act, !.obj = obj, !.id = ObjectIDOf(obj),
                       !.model = ModelOf(h),
                       !.apobj = CASE h \in {"CreateStatus", "UpdateStatus"} -> "Statusable"
                                   [] h = "UpdateAccount" -> "Accountable"
                                   [] OTHER -> "nil"]

\* The variants of the well-formed message in the attributes its handler
\* reads.
Variants(m) ==
    LET h == Route(m.act, m.obj)
    IN CASE h \in {"CreateStatus", "AcceptReply", "DeleteStatus"} ->
               {[m EXCEPT !.pending = n.pending, !.pre = n.pre, !.reply = n.reply] :
                    n \in Notes}
         [] h \in {"CreateLike", "CreateAnnounce"} ->
               {[m EXCEPT !.pending = a.pending, !.pre = a.pre] : a \in Approvals}
         [] h = "CreateFollowReq" -> {[m EXCEPT !.locked = b] : b \in BOOLEAN}
         [] h = "CreatePollVote" -> {[m EXCEPT !.local = b] : b \in BOOLEAN}
         [] h = "UpdateStatus" -> {[m EXCEPT !.closing = b] : b \in BOOLEAN}
         [] OTHER -> {m}

\* The same, also in the ways a message can be malformed: a GTSModel of
\* the wrong type, an APObject of the wrong type or missing, an IRI set.
Malformed(m) ==
    {[m EXCEPT !.model = t, !.apobj = o, !.iri = i] :
        t \in {m.model, "nil"},
        o \in {m.apobj, "nil", "Accountable"},
        i \in BOOLEAN}

\* Every message of the model.
AllMsgs ==
    UNION {UNION {Malformed(v) : v \in Variants(WellFormed(a, o))} :
               a \in Activities, o \in ObjectTypes}

\* The messages of the concurrent specification, all about the one note:
\* well-formed, with a Create-Note carrying either the parsed note or its
\* IRI.
Msgs ==
    UNION {Variants(WellFormed(a, "Note")) :
               a \in {"Create", "Update", "Accept", "Delete"}}
    \cup {[v EXCEPT !.apobj = "nil", !.iri = TRUE] :
              v \in Variants(WellFormed("Create", "Note"))}

\* ---- the dispatcher as a state machine ----

Workers == {"w1", "w2"}

\* A worker without a message, and a worker inside a handler: todo are
\* the collaborator calls the handler still has to make, ret is what
\* it returns after the last of them.
\* last marks the worker that made the latest call, resumes counts the
\* times the worker went on with a handler after calls of the other
\* worker.
Idle == [busy |-> FALSE, m |-> BaseMsg, F |-> {}, status |-> NoRow,
         called |-> <<>>, todo |-> <<>>, ret |-> "nil",
         last |-> FALSE, resumes |-> 0]
IdleAfter(c) == [Idle EXCEPT !.resumes = c.resumes]
Busy(c, m, F, status, called, todo, ret) ==
    [busy |-> TRUE, m |-> m, F |-> F, status |-> status,
     called |-> called, todo |-> todo, ret |-> ret,
     last |-> TRUE, resumes |-> c.resumes]

\* The workers after worker w made a call and is left as rec.
Ran(w, rec) ==
    [v \in Workers |->
        IF v = w THEN rec ELSE [inflight[v] EXCEPT !.last = FALSE]]

\* Worker w goes on with its handler after the other worker, still in
\* its handler, made the latest call.
Overtaken(w) ==
    /\ ~inflight[w].last
    /\ \E v \in Workers \ {w} : inflight[v].busy

\* Times a handler was overtaken so far.
Resumes == inflight["w1"].resumes + inflight["w2"].resumes

FediInit ==
    /\ stored = EmptyDB
    /\ inflight = [w \in Workers |-> Idle]
    /\ effects = <<>>
    /\ returns = <<>>

\* The record of a finished dispatch.
Return(m, F, called, ret) == [m |-> m, F |-> F, called |-> called, ret |-> ret]

\* Dispatches started so far.
Started == Len(returns) + Cardinality({w \in Workers : inflight[w].busy})

\* The Create-Note messages seen so far, finished or in flight.
NotesSeen ==
    {returns[i].m : i \in {j \in 1..Len(returns) : returns[j].m.obj = "Note"}}
    \cup {inflight[w].m : w \in {v \in Workers : inflight[v].busy}}

\* A URI names one note: every message about the status carries the same
\* note as the messages before it.
SameNote(m) ==
    m.obj = "Note" =>
        \A o \in NotesSeen :
            o.pending = m.pending /\ o.pre = m.pre /\ o.reply = m.reply

\* The workers are interchangeable: the next message goes to the first
\* idle one.
FirstIdle(w) ==
    /\ ~inflight[w].busy
    /\ (w = "w2" => inflight["w1"].busy)

\* The next collaborator call of a handler's calls, together with the
\* log.Errorf of its failure, and the calls after it.
CallLen(log) == IF Len(log) >= 2 /\ log[2].e = "log.Errorf" THEN 2 ELSE 1
FirstCall(log) == IF log = <<>> THEN <<>> ELSE SubSeq(log, 1, CallLen(log))
RestCalls(log) ==
    IF log = <<>> THEN <<>> ELSE SubSeq(log, CallLen(log) + 1, Len(log))

\* What a collaborator call writes to the statuses table: wipeStatus
\* deletes the row of the status.
Written(call, db) ==
    IF call # <<>> /\ call[1].e = "wipeStatus" /\ call[1].ok
       /\ call[1].id \in StatusIDs
    THEN [db EXCEPT ![call[1].id] = NoRow]
    ELSE db

\* ProcessFromFediAPI of message m up to the return of its first
\* collaborator call: what that call did, and what the handler goes on
\* to do.  In CreateStatus the first call is the dereferencer.
Begin(m, db, F) ==
    IF Route(m.act, m.obj) = "CreateStatus"
    THEN LET r == CreateStatusResolve(m, db, F)
             t == CreateStatusRest(m.id, r.status, F)
         IN [called |-> <<"CreateStatus">>, log |-> r.log, db |-> r.db,
             status |-> r.status,
             todo |-> IF r.done THEN <<>> ELSE t.log,
             ret |-> IF r.done THEN r.ret ELSE t.ret]
    ELSE LET r == ProcessFromFediAPI(m, db, F)
         IN [called |-> r.called, log |-> FirstCall(r.log),
             db |-> Written(FirstCall(r.log), db), status |-> NoRow,
             todo |-> RestCalls(r.log), ret |-> r.ret]

\* Worker w takes message m and runs ProcessFromFediAPI on it up to the
\* return of the first collaborator call; the handler returns there
\* when it has no further call to make.
Dispatch(w, m, F) ==
    /\ FirstIdle(w)
    /\ Started < MaxDispatch
    /\ SameNote(m)
    /\ LET r == Begin(m, stored, F)
       IN /\ stored' = r.db
          /\ effects' = effects \o r.log
          /\ IF r.todo = <<>>
             THEN /\ returns' = Append(returns, Return(m, F, r.called, r.ret))
                  /\ inflight' = Ran(w, inflight[w])
             ELSE /\ inflight' =
                         Ran(w, Busy(inflight[w], m, F, r.status, r.called,
                                     r.todo, r.ret))
                  /\ UNCHANGED returns

\* Worker w makes the next collaborator call of its handler; the
\* handler returns after the last one.
Step(w) ==
    /\ inflight[w].busy
    /\ (Overtaken(w) => Resumes < MaxResume)
    /\ LET c == inflight[w]
           call == FirstCall(c.todo)
           rest == RestCalls(c.todo)
       IN /\ stored' = Written(call, stored)
          /\ effects' = effects \o call
          /\ IF rest = <<>>
             THEN /\ returns' = Append(returns, Return(c.m, c.F, c.called, c.ret))
                  /\ inflight' = Ran(w, IdleAfter(c))
             ELSE /\ inflight' = Ran(w, [c EXCEPT
                         !.todo = rest, !.last = TRUE,
                         !.resumes = IF Overtaken(w) THEN @ + 1 ELSE @])
                  /\ UNCHANGED returns

\* The one dispatch of a pool that is given a single message: the
\* first worker takes it and runs ProcessFromFediAPI up to the return
\* of the first collaborator call; Step makes the calls after it.
HandleOnce(m, F) ==
    /\ Started = 0
    /\ Dispatch("w1", m, F)

-----------------------------------------------------------------------------
(*                            CURSOR PAGING                                *)
(*                internal/paging/{page,boundary,order}.go                 *)

\* Keys are the integers 1..MaxKey; 0 is the zero value of the key type.
MaxKey == 4
\* Largest Limit of a page.
MaxLimit == 3

\* order.go: type Order, with 0 for "none".
OrderAscending == 1
OrderDescending == 2

\* Boundary[T]{Name, Value, Order}.
Boundary(name, value, ord) == [Name |-> name, Value |-> value, Order |-> ord]
ZeroBoundary == Boundary("", 0, 0)

\* MinID(minID, sinceID) and MaxID(maxID) of boundary.go.
MinID(minID, sinceID) ==
    IF sinceID # 0 THEN Boundary("since_id", sinceID, OrderDescending)
    ELSE Boundary("min_id", minID, OrderAscending)

MaxID(maxID) == Boundary("max_id", maxID, 0)

\* Boundary.New: the same name and order around another value.
BoundaryNew(b, value) == Boundary(b.Name, value, b.Order)

\* Boundary.Find: the (zero-based) index of the boundary value in the
\* slice, -1 if the value is zero or not in the slice.
Find(b, in) ==
    IF b.Value = 0 THEN -1
    ELSE IF \E i \in 1..Len(in) : in[i] = b.Value
    THEN (CHOOSE i \in 1..Len(in) :
              in[i] = b.Value /\ \A j \in 1..(i - 1) : in[j] # b.Value) - 1
    ELSE -1

\* *Page[T]: a nil pointer, or the page it points to.
NilPage == [nil |-> TRUE, Min |-> ZeroBoundary, Max |-> ZeroBoundary, Limit |-> 0]
Page(min, max, limit) == [nil |-> FALSE, Min |-> min, Max |-> max, Limit |-> limit]

\* paging.New(minID, sinceID, maxID, limit).
New(minID, sinceID, maxID, limit) ==
    Page(MinID(minID, sinceID), MaxID(maxID), limit)

\* Page.order: the minimum boundary's order has priority.
order(p) ==
    IF p.Min.Order # 0 THEN p.Min.Order
    ELSE IF p.Max.Order # 0 THEN p.Max.Order
    ELSE 0

\* Go's in[from:] and in[:to], on zero-based indices.
SliceFrom(in, from) == SubSeq(in, from + 1, Len(in))
SliceTo(in, to) == SubSeq(in, 1, to)

\* The swap loop of PageAsc / PageDesc, on a clone of the slice.
Reverse(in) == [i \in 1..Len(in) |-> in[Len(in) + 1 - i]]

\* The truncation to Limit.
Truncate(p, in) ==
    IF p.Limit > 0 /\ p.Limit < Len(in) THEN SliceTo(in, p.Limit) ELSE in

\* The caller's slice with the elements of sub, a run of it, replaced by
\* those of new.
Splice(in, sub, new) ==
    LET at == CHOOSE i \in 1..Len(in) : in[i] = sub[1]
    IN [k \in 1..Len(in) |->
           IF k >= at /\ k < at + Len(sub) THEN new[k - at + 1] ELSE in[k]]

SwapLoop_InPlace(in, sub) == [input |-> Splice(in, sub, Reverse(sub)), out |-> Reverse(sub)]

\* in = slices.Clone(in) and the swap loop, where sub is the part of the
\* caller's slice the function has cut down to: the loop writes to the
\* clone, and the caller's slice keeps its elements.
SwapLoop(in, sub) == [input |-> in, out |-> Reverse(sub)]

\* The end of the four paging functions, from the part cut out of the
\* input (sub) and whether it is to be reversed (swap): the swap loop
\* and the truncation to the limit.  input is the caller's slice after
\* the call, out the slice returned.
Paged(p, in, cut) ==
    LET r == IF cut.swap /\ Len(cut.sub) > 1 THEN SwapLoop(in, cut.sub)
             ELSE [input |-> in, out |-> cut.sub]
    IN [input |-> r.input, out |-> Truncate(p, r.out)]

PageAsc_InclusiveMin(p, in) ==
    IF p.nil THEN in
    ELSE LET minIdx == Find(p.Min, in)
             in1 == IF minIdx # -1 THEN SliceFrom(in, minIdx) ELSE in
             maxIdx == Find(p.Max, in1)
             in2 == IF maxIdx # -1 THEN SliceTo(in1, maxIdx) ELSE in1
             in3 == IF order(p) = OrderDescending /\ Len(in2) > 1
                    THEN Reverse(in2) ELSE in2
         IN Truncate(p, in3)

\* Page.PageAsc: page the ascending slice by the receiver's boundaries
\* (both exclusive), order and limit.
PageAscOn(p, in) ==
    IF p.nil THEN [input |-> in, out |-> in]
    ELSE LET minIdx == Find(p.Min, in)
             in1 == IF minIdx # -1 THEN SliceFrom(in, minIdx + 1) ELSE in
             maxIdx == Find(p.Max, in1)
             in2 == IF maxIdx # -1 THEN SliceTo(in1, maxIdx) ELSE in1
         IN Paged(p, in, [sub |-> in2, swap |-> order(p) = OrderDescending])

PageAsc(p, in) == PageAscOn(p, in).out

\* Page.PageDesc: the same for a descending slice.
PageDescOn(p, in) ==
    IF p.nil THEN [input |-> in, out |-> in]
    ELSE LET maxIdx == Find(p.Max, in)
             in1 == IF maxIdx # -1 THEN SliceFrom(in, maxIdx + 1) ELSE in
             minIdx == Find(p.Min, in1)
             in2 == IF minIdx # -1 THEN SliceTo(in1, minIdx) ELSE in1
         IN Paged(p, in, [sub |-> in2, swap |-> order(p) = OrderAscending])

PageDesc(p, in) == PageDescOn(p, in).out

Next_KeepsMax(p, max) ==
    IF p.nil \/ max = 0 THEN NilPage
    ELSE Page(ZeroBoundary, p.Max, p.Limit)

\* Page.Next: the page below max, with the receiver's limit and the
\* receiver's max boundary name; nil for a nil page or a zero max.
Next(p, max) ==
    IF p.nil \/ max = 0 THEN NilPage
    ELSE Page(ZeroBoundary, BoundaryNew(p.Max, max), p.Limit)

\* Page.Prev: the page above min.
Prev(p, min) ==
    IF p.nil \/ min = 0 THEN NilPage
    ELSE Page(BoundaryNew(p.Min, min), ZeroBoundary, p.Limit)

\* ---- a caller iterating over a sorted slice ----

RECURSIVE SortedAsc(_)
\* The ascending sequence of the keys of set S.
SortedAsc(S) ==
    IF S = {} THEN <<>>
    ELSE LET hi == CHOOSE x \in S : \A y \in S : y <= x
         IN Append(SortedAsc(S \ {hi}), hi)

\* How the caller pages and derives the continuation page.
Modes == {"AscNext", "AscPrev", "DescNext", "DescPrev"}
Ascends(mode) == mode \in {"AscNext", "AscPrev"}
\* The loops over a table that fetch page after page from storage.
Loops == {"rangeDomainAccounts", "GetAllAttachmentPaths"}

PagingInit ==
    /\ pgIn = <<>>
    /\ pgPage = NilPage
    /\ pgMode = "none"
    /\ pgOut = <<>>
    /\ pgCalls = 0
    /\ pgDone = FALSE
    /\ pgArg = 0
    /\ pgDerived = NilPage

\* The caller holds a sorted slice of unique non-zero keys and a first
\* page with no boundary value set: the zero Page with a limit, or the
\* page New builds from empty IDs.
PagingStart ==
    /\ pgMode \in Modes \cup Loops
    /\ \E S \in SUBSET (1..MaxKey) :
           pgIn = IF Ascends(pgMode) THEN SortedAsc(S) ELSE Reverse(SortedAsc(S))
    /\ \E L \in 1..MaxLimit :
           pgPage \in IF pgMode \in Loops THEN {Page(ZeroBoundary, ZeroBoundary, L)}
                      ELSE {Page(ZeroBoundary, ZeroBoundary, L), New(0, 0, 0, L)}
    /\ pgOut = <<>>
    /\ pgCalls = 0
    /\ pgDone = FALSE
    /\ pgArg = 0
    /\ pgDerived = NilPage

\* One round of the iteration: page the slice, then derive the
\* continuation from the last element returned (the zero value when
\* nothing was returned) and stop if there is none.
PageStep ==
    /\ ~pgDone
    /\ pgMode \in Modes
    /\ LET out == IF Ascends(pgMode) THEN PageAsc(pgPage, pgIn)
                  ELSE PageDesc(pgPage, pgIn)
           last == IF out = <<>> THEN 0 ELSE out[Len(out)]
           cont == IF pgMode \in {"AscNext", "DescNext"} THEN Next(pgPage, last)
                   ELSE Prev(pgPage, last)
       IN /\ pgOut' = pgOut \o out
          /\ pgPage' = cont
          /\ pgDone' = cont.nil
          /\ pgCalls' = pgCalls + 1
    /\ UNCHANGED <<pgIn, pgMode, pgArg, pgDerived>>

\* The page of rows a storage query returns for a page: the rows below
\* the page's maximum, newest first, no more than the limit.
GetRows(rows, page) ==
    LET below == SelectSeq(rows, LAMBDA x : page.Max.Value = 0 \/ x < page.Max.Value)
    IN IF page.Limit > 0 /\ page.Limit < Len(below)
       THEN SliceTo(below, page.Limit) ELSE below

\* One round of the loop of rangeDomainAccounts: fetch the page, return
\* if it is empty, else take its last ID as the next maximum and range
\* over the accounts.
RangeStep ==
    /\ ~pgDone
    /\ pgMode = "rangeDomainAccounts"
    /\ LET accounts == GetRows(pgIn, pgPage)
       IN /\ pgDone' = (Len(accounts) = 0)
          /\ pgPage' = IF Len(accounts) = 0 THEN pgPage
                       ELSE [pgPage EXCEPT !.Max.Value = accounts[Len(accounts)]]
          /\ pgOut' = pgOut \o accounts
          /\ pgCalls' = pgCalls + 1
    /\ UNCHANGED <<pgIn, pgMode, pgArg, pgDerived>>

\* One round of the loop of GetAllAttachmentPaths: fetch the page, take
\* its attachments, break if they are fewer than the limit, else take
\* the last ID as the next maximum.
AttachmentsStep ==
    /\ ~pgDone
    /\ pgMode = "GetAllAttachmentPaths"
    /\ LET attachments == GetRows(pgIn, pgPage)
       IN /\ pgDone' = (Len(attachments) < pgPage.Limit)
          /\ pgPage' = IF Len(attachments) < pgPage.Limit THEN pgPage
                       ELSE [pgPage EXCEPT !.Max.Value = attachments[Len(attachments)]]
          /\ pgOut' = pgOut \o attachments
          /\ pgCalls' = pgCalls + 1
    /\ UNCHANGED <<pgIn, pgMode, pgArg, pgDerived>>

\* ---- the pager of serialized IDs (paging.go) ----

\* *Pager: a nil pointer, or the pager it points to.
NilPager == [nil |-> TRUE, SinceID |-> 0, MinID |-> 0, MaxID |-> 0, Limit |-> 0]
Pager(sinceID, minID, maxID, limit) ==
    [nil |-> FALSE, SinceID |-> sinceID, MinID |-> minID, MaxID |-> maxID,
     Limit |-> limit]

\* The loops of Pager.PageAsc / PageDesc looking for an ID: the
\* (zero-based) index of its first occurrence, -1 if there is none.
IndexOf(ids, id) ==
    IF \E i \in 1..Len(ids) : ids[i] = id
    THEN (CHOOSE i \in 1..Len(ids) :
              ids[i] = id /\ \A j \in 1..(i - 1) : ids[j] # id) - 1
    ELSE -1

\* Pager.PageAsc: since_id is looked for before min_id, and only a
\* min_id without since_id asks for ascending order.
PagerPageAscOn(p, ids) ==
    IF p.nil THEN [input |-> ids, out |-> ids]
    ELSE LET asc == p.SinceID = 0 /\ p.MinID # 0
             minIdx == IF p.SinceID # 0 THEN IndexOf(ids, p.SinceID)
                       ELSE IF p.MinID # 0 THEN IndexOf(ids, p.MinID)
                       ELSE -1
             ids1 == IF minIdx # -1 THEN SliceFrom(ids, minIdx + 1) ELSE ids
             maxIdx == IF p.MaxID # 0 THEN IndexOf(ids1, p.MaxID) ELSE -1
             ids2 == IF maxIdx # -1 THEN SliceTo(ids1, maxIdx) ELSE ids1
         IN Paged(p, ids, [sub |-> ids2, swap |-> ~asc])

PagerPageAsc(p, ids) == PagerPageAscOn(p, ids).out

\* Pager.PageDesc.
PagerPageDescOn(p, ids) ==
    IF p.nil THEN [input |-> ids, out |-> ids]
    ELSE LET asc == p.SinceID = 0 /\ p.MinID # 0
             maxIdx == IF p.MaxID # 0 THEN IndexOf(ids, p.MaxID) ELSE -1
             ids1 == IF maxIdx # -1 THEN SliceFrom(ids, maxIdx + 1) ELSE ids
             minIdx == IF p.SinceID # 0 THEN IndexOf(ids1, p.SinceID)
                       ELSE IF p.MinID # 0 THEN IndexOf(ids1, p.MinID)
                       ELSE -1
             ids2 == IF minIdx # -1 THEN SliceTo(ids1, minIdx) ELSE ids1
         IN Paged(p, ids, [sub |-> ids2, swap |-> asc])

PagerPageDesc(p, ids) == PagerPageDescOn(p, ids).out

PagerNext_NilForNilPager(p, maxID) ==
    IF maxID = 0 \/ p.nil THEN NilPager
    ELSE Pager(0, 0, maxID, p.Limit)

\* Pager.Next: nil for an empty max ID; for a nil pager a pager with
\* only the max ID set.
PagerNext(p, maxID) ==
    IF maxID = 0 THEN NilPager
    ELSE IF p.nil THEN Pager(0, 0, maxID, 0)
    ELSE Pager(0, 0, maxID, p.Limit)

\* Pager.Prev: the min ID goes where the receiver had its minimum.
PagerPrev(p, minID) ==
    IF minID = 0 THEN NilPager
    ELSE IF p.nil THEN Pager(0, minID, 0, 0)
    ELSE IF p.SinceID # 0 THEN Pager(minID, 0, 0, p.Limit)
    ELSE Pager(0, minID, 0, p.Limit)

\* ---- single calls of the paging functions ----

\* The query parameters a request can carry, as a Pager, and the pages
\* New builds from them.
Pagers ==
    {NilPager} \cup
    {Pager(s, m, x, l) : s \in 0..MaxKey, m \in 0..MaxKey, x \in 0..MaxKey,
                         l \in 0..MaxLimit}
Pages == {NilPage} \cup {New(q.MinID, q.SinceID, q.MaxID, q.Limit) : q \in Pagers}
IsPager(p) == "MaxID" \in DOMAIN p

\* Slices of unique non-zero keys, sorted either way.
SortedSlices ==
    UNION {{SortedAsc(S), Reverse(SortedAsc(S))} : S \in SUBSET (1..MaxKey)}
IsAscending(in) == \A i \in 1..Len(in) : \A j \in 1..Len(in) : i < j => in[i] < in[j]
IsDescending(in) == \A i \in 1..Len(in) : \A j \in 1..Len(in) : i < j => in[i] > in[j]

\* A caller holding a page or a pager and a sorted slice, about to make
\* one call.
CallStart ==
    /\ pgIn \in SortedSlices
    /\ pgPage \in Pages \cup Pagers
    /\ pgMode = "call"
    /\ pgOut = <<>>
    /\ pgCalls = 0
    /\ pgDone = FALSE
    /\ pgArg = 0
    /\ pgDerived = NilPage

\* What a call leaves behind.
Called(mode, out, arg, derived) ==
    /\ pgMode = "call"
    /\ pgMode' = mode
    /\ pgOut' = out
    /\ pgArg' = arg
    /\ pgDerived' = derived
    /\ pgCalls' = 1
    /\ UNCHANGED <<pgIn, pgPage, pgDone>>

\* What a call of a paging function leaves behind: the slice it
\* returned, and the caller's slice as the call left it.
CalledOn(mode, r) ==
    /\ pgMode = "call"
    /\ pgMode' = mode
    /\ pgOut' = r.out
    /\ pgIn' = r.input
    /\ pgCalls' = 1
    /\ UNCHANGED <<pgPage, pgDone, pgArg, pgDerived>>

CallPageAsc ==
    /\ ~IsPager(pgPage) /\ IsAscending(pgIn)
    /\ CalledOn("Page.PageAsc", PageAscOn(pgPage, pgIn))

CallPageDesc ==
    /\ ~IsPager(pgPage) /\ IsDescending(pgIn)
    /\ CalledOn("Page.PageDesc", PageDescOn(pgPage, pgIn))

CallPagerPageAsc ==
    /\ IsPager(pgPage) /\ IsAscending(pgIn)
    /\ CalledOn("Pager.PageAsc", PagerPageAscOn(pgPage, pgIn))

CallPagerPageDesc ==
    /\ IsPager(pgPage) /\ IsDescending(pgIn)
    /\ CalledOn("Pager.PageDesc", PagerPageDescOn(pgPage, pgIn))

\* Next and Prev do not read the slice: they are called by the callers
\* holding the empty one.
CallNext(v) ==
    /\ ~IsPager(pgPage) /\ pgIn = <<>>
    /\ Called("Page.Next", <<>>, v, Next(pgPage, v))

CallPrev(v) ==
    /\ ~IsPager(pgPage) /\ pgIn = <<>>
    /\ Called("Page.Prev", <<>>, v, Prev(pgPage, v))

CallPagerNext(v) ==
    /\ IsPager(pgPage) /\ pgIn = <<>>
    /\ Called("Pager.Next", <<>>, v, PagerNext(pgPage, v))

CallPagerPrev(v) ==
    /\ IsPager(pgPage) /\ pgIn = <<>>
    /\ Called("Pager.Prev", <<>>, v, PagerPrev(pgPage, v))

\* ---- timeline queries (db/bundb/timeline.go) ----

\* The elements of a slice.
Elems(in) == {in[i] : i \in 1..Len(in)}

\* The SELECT of a timeline query over the status IDs of the table:
\* WHERE id < maxID, WHERE id > minID, ORDER BY id DESC or ASC, LIMIT.
QueryIDs(ids, minID, maxID, limit, desc) ==
    LET rows == {x \in ids : (maxID # 0 => x < maxID) /\ (minID # 0 => x > minID)}
        sorted == IF desc THEN Reverse(SortedAsc(rows)) ELSE SortedAsc(rows)
    IN IF limit > 0 /\ limit < Len(sorted) THEN SliceTo(sorted, limit) ELSE sorted

\* timelineDB.GetHomeTimeline / GetPublicTimeline / GetListTimeline /
\* GetTagTimeline, as far as paging goes: the query is ordered DESC
\* when the page's order is ascending and ASC otherwise, and the IDs of
\* an ASC query are reversed.
GetTimeline(ids, page) ==
    LET minID == IF page.nil THEN 0 ELSE page.Min.Value
        maxID == IF page.nil THEN 0 ELSE page.Max.Value
        limit == IF page.nil \/ page.Limit < 0 THEN 0 ELSE page.Limit
        ord == IF page.nil THEN 0 ELSE order(page)
        frontToBack == (ord = OrderAscending)
        statusIDs == QueryIDs(ids, minID, maxID, limit, frontToBack)
    IN IF ~frontToBack THEN Reverse(statusIDs) ELSE statusIDs

\* A timeline request with the query parameters of the pager: the
\* handler builds the page from them, with a limit of at least 1, and
\* the timeline is read from the statuses of the slice.
CallTimeline ==
    /\ IsPager(pgPage) /\ ~pgPage.nil /\ pgPage.Limit >= 1
    /\ IsAscending(pgIn)
    /\ Called("Timeline",
              GetTimeline(Elems(pgIn),
                          Page(MinID(pgPage.MinID, pgPage.SinceID),
                               MaxID(pgPage.MaxID), pgPage.Limit)),
              0, NilPage)

\* scanQueryPage over the values of a column: WHERE col > min, WHERE
\* col < max, LIMIT, ORDER BY col DESC unless the page's order is
\* ascending; the rows of an ascending query are reversed.
scanQueryPage(ids, page) ==
    LET min == IF page.nil THEN 0 ELSE page.Min.Value
        max == IF page.nil THEN 0 ELSE page.Max.Value
        limit == IF page.nil \/ page.Limit < 0 THEN 0 ELSE page.Limit
        ord == IF page.nil THEN 0 ELSE order(page)
        slice == QueryIDs(ids, min, max, limit, ord # OrderAscending)
    IN IF ord = OrderAscending THEN Reverse(slice) ELSE slice

\* A query of a column of the rows of the slice, with a page or nil.
CallScan ==
    /\ ~IsPager(pgPage) /\ IsAscending(pgIn)
    /\ Called("scanQueryPage", scanQueryPage(Elems(pgIn), pgPage), 0, NilPage)

\* paging.New on the query parameters of a request.
CallNew ==
    /\ IsPager(pgPage) /\ ~pgPage.nil /\ pgIn = <<>>
    /\ Called("New", <<>>, 0,
              New(pgPage.MinID, pgPage.SinceID, pgPage.MaxID, pgPage.Limit))

-----------------------------------------------------------------------------
(*                               CACHES                                    *)
(*                           internal/cache                                *)

\* Cache keys (entity IDs).
Keys == {"k1", "k2"}
\* The clock runs from 0 to MaxTime (in minutes).
MaxTime == 1
\* Cache.init: c.ttl = time.Minute * 5.
DefaultTTL == 5

\* A cached entity: its ID, one scalar field, and the set of its
\* association pointer fields (account, attachments, ...) that are not nil.
Texts == {"a", "b"}
Val(id, text, assoc) == [id |-> id, text |-> text, assoc |-> assoc]
NoValue == Val("", "", {})

\* *entry{value, expiry}, or no entry under the key.
NoEntry == [has |-> FALSE, value |-> NoValue, expiry |-> 0]
Entry(value, expiry) == [has |-> TRUE, value |-> value, expiry |-> expiry]
EmptyCache == [k \in Keys |-> NoEntry]

\* Cache.get: the value under key, its expiry extended.
get(c, key, now) ==
    IF ~c[key].has THEN [ok |-> FALSE, value |-> NoValue, cache |-> c]
    ELSE [ok |-> TRUE, value |-> c[key].value,
          cache |-> [c EXCEPT ![key].expiry = now + DefaultTTL]]

\* Cache.set: overwrite or create the entry (the update hook of the
\* plain cache is empty).
set(c, key, value, now) == [c EXCEPT ![key] = Entry(value, now + DefaultTTL)]

Evict_KeepsEntry(c, key) ==
    IF ~c[key].has THEN [ok |-> FALSE, cache |-> c]
    ELSE [ok |-> TRUE, cache |-> c]

\* Cache.Evict: delete the entry, after the eviction hook.
Evict(c, key) ==
    IF ~c[key].has THEN [ok |-> FALSE, cache |-> c]
    ELSE [ok |-> TRUE, cache |-> [c EXCEPT ![key] = NoEntry]]

\* Cache.sweep: "if item.expiry.After(now)" evict.
sweep(c, now) ==
    [k \in Keys |-> IF c[k].has /\ c[k].expiry > now THEN NoEntry ELSE c[k]]

\* The association pointer fields of each entity.
Pointers(kind) ==
    CASE kind = "status" ->
            {"Attachments", "Tags", "Mentions", "Emojis", "Account",
             "InReplyTo", "InReplyToAccount", "BoostOf", "BoostOfAccount"}
      [] kind = "account" -> {"AvatarMediaAttachment", "HeaderMediaAttachment"}
      [] kind = "mention" -> {"Status", "OriginAccount", "TargetAccount"}
      [] kind = "notification" -> {"OriginAccount", "Status", "TargetAccount"}
      [] OTHER -> {}

\* copyStatus, copyAccount, copyMention, copyNotification: a surface copy
\* with the fields the function assigns nil to cleared.
copyStatus(v) ==
    [v EXCEPT !.assoc = @ \ {"Attachments", "Tags", "Mentions", "Account",
                             "InReplyTo", "InReplyToAccount", "BoostOf",
                             "BoostOfAccount"}]
copyAccount(v) ==
    [v EXCEPT !.assoc = @ \ {"AvatarMediaAttachment", "HeaderMediaAttachment"}]
copyMention(v) ==
    [v EXCEPT !.assoc = @ \ {"Status", "OriginAccount", "TargetAccount"}]
copyNotification(v) ==
    [v EXCEPT !.assoc = @ \ {"OriginAccount", "Status", "TargetAccount"}]

\* The result of an entity cache read: the value handed out, and whether
\* it is the very object the entry points to.
Got(r, value, same) ==
    [ok |-> r.ok, value |-> IF r.ok THEN value ELSE NoValue,
     same |-> r.ok /\ same, cache |-> r.cache]

StatusCacheGet(c, id, now) ==
    LET r == get(c, id, now) IN Got(r, copyStatus(r.value), FALSE)
AccountCacheGet(c, id, now) ==
    LET r == get(c, id, now) IN Got(r, copyAccount(r.value), FALSE)
MentionCacheGet(c, id, now) ==
    LET r == get(c, id, now) IN Got(r, copyMention(r.value), FALSE)
NotificationCacheGet(c, id, now) ==
    LET r == get(c, id, now) IN Got(r, copyNotification(r.value), FALSE)
TagCacheGet(c, id, now) ==
    LET r == get(c, id, now) IN Got(r, r.value, TRUE)
EmojiCacheGet(c, id, now) ==
    LET r == get(c, id, now) IN Got(r, r.value, TRUE)

\* The result of an entity cache write: whether the entry points to the
\* caller's own object.
Put(cache, same) == [cache |-> cache, same |-> same]

StatusCacheSet(c, v, now) == Put(set(c, v.id, copyStatus(v), now), FALSE)
AccountCacheSet(c, v, now) == Put(set(c, v.id, copyAccount(v), now), FALSE)
MentionCacheSet(c, v, now) == Put(set(c, v.id, copyMention(v), now), FALSE)
NotificationCacheSet(c, v, now) ==
    Put(set(c, v.id, copyNotification(v), now), FALSE)
TagCacheSet(c, v, now) == Put(set(c, v.id, v, now), TRUE)
EmojiCacheSet(c, v, now) == Put(set(c, v.id, v, now), TRUE)

Kinds == {"status", "account", "mention", "notification", "tag", "emoji"}

EntityGet(kind, c, id, now) ==
    CASE kind = "status" -> StatusCacheGet(c, id, now)
      [] kind = "account" -> AccountCacheGet(c, id, now)
      [] kind = "mention" -> MentionCacheGet(c, id, now)
      [] kind = "notification" -> NotificationCacheGet(c, id, now)
      [] kind = "tag" -> TagCacheGet(c, id, now)
      [] kind = "emoji" -> EmojiCacheGet(c, id, now)

EntitySet(kind, c, v, now) ==
    CASE kind = "status" -> StatusCacheSet(c, v, now)
      [] kind = "account" -> AccountCacheSet(c, v, now)
      [] kind = "mention" -> MentionCacheSet(c, v, now)
      [] kind = "notification" -> NotificationCacheSet(c, v, now)
      [] kind = "tag" -> TagCacheSet(c, v, now)
      [] kind = "emoji" -> EmojiCacheSet(c, v, now)

\* ---- the result cache of blocks: Load, Store, Invalidate ----

NoRowAt == [has |-> FALSE, value |-> NoValue]
EmptyStore == [k \in Keys |-> NoRowAt]

\* Invalidate: remove the entry under the key.
Invalidate(c, key) == Evict(c, key).cache

\* ---- the caches as a state machine ----

NoHeld == [has |-> FALSE, value |-> NoValue, entry |-> "none", from |-> "none"]
Held(value, key, same, from) ==
    [has |-> TRUE, value |-> value,
     entry |-> IF same THEN key ELSE "none", from |-> from]
NoRes == [op |-> "none", key |-> "none", ok |-> FALSE, loaded |-> FALSE]
OpRes(op, key, ok, loaded) == [op |-> op, key |-> key, ok |-> ok, loaded |-> loaded]

\* The goroutines calling GetBlock, and where a call of GetBlock, of
\* DeleteBlockByID or of PutBlock is: pc, the key, the row the loader
\* read, whether the caller asked for a barebones model, the block to
\* put.
Getters == {"g1", "g2"}
IdleGet == [pc |-> "idle", key |-> "none", row |-> NoRowAt, bare |-> TRUE]
IdleDelete == [pc |-> "idle", key |-> "none"]
IdlePut == [pc |-> "idle", value |-> NoValue]
NoRace == [get |-> [g \in Getters |-> IdleGet], del |-> IdleDelete,
           put |-> IdlePut]

CacheInit ==
    /\ ckind = "none"
    /\ centries = EmptyCache
    /\ cheld = NoHeld
    /\ cnow = 0
    /\ cstore = EmptyStore
    /\ cres = NoRes
    /\ clast = [k \in Keys |-> "none"]
    /\ crace = NoRace
    /\ cttl = DefaultTTL

\* The pointer the caller holds no longer is the entry's once the entry
\* is gone.
Unshare(held, c) ==
    IF held.entry # "none" /\ ~c[held.entry].has
    THEN [held EXCEPT !.entry = "none"] ELSE held

\* A caller builds an entity and puts it in the cache.
CSet(v) ==
    LET r == EntitySet(ckind, centries, v, cnow)
    IN /\ centries' = r.cache
       /\ cheld' = Held(v, v.id, r.same, "Set")
       /\ cres' = OpRes("Set", v.id, TRUE, FALSE)
       /\ clast' = [clast EXCEPT ![v.id] = "Set"]
       /\ UNCHANGED <<ckind, cnow, cstore>>

\* A caller reads the entity under key.
CGet(key) ==
    LET r == EntityGet(ckind, centries, key, cnow)
    IN /\ centries' = r.cache
       /\ cheld' = IF r.ok THEN Held(r.value, key, r.same, "Get") ELSE NoHeld
       /\ cres' = OpRes("Get", key, r.ok, FALSE)
       /\ UNCHANGED <<ckind, cnow, cstore, clast>>

\* The caller writes a field of the object it holds.
CMutate(t) ==
    /\ cheld.has
    /\ t # cheld.value.text
    /\ cheld' = [cheld EXCEPT !.value.text = t]
    /\ centries' = IF cheld.entry # "none"
                   THEN [centries EXCEPT ![cheld.entry].value.text = t]
                   ELSE centries
    /\ cres' = OpRes("Mutate", cheld.value.id, TRUE, FALSE)
    /\ UNCHANGED <<ckind, cnow, cstore, clast>>

CEvict(key) ==
    LET r == Evict(centries, key)
    IN /\ centries' = r.cache
       /\ cheld' = Unshare(cheld, r.cache)
       /\ cres' = OpRes("Evict", key, r.ok, FALSE)
       /\ clast' = [clast EXCEPT ![key] = "Evict"]
       /\ UNCHANGED <<ckind, cnow, cstore>>

CTick ==
    /\ cnow < MaxTime
    /\ cnow' = cnow + 1
    /\ cres' = OpRes("Tick", "none", TRUE, FALSE)
    /\ UNCHANGED <<ckind, centries, cheld, cstore, clast>>

\* The cleanup goroutine's sweep.
CSweep ==
    LET c == sweep(centries, cnow)
    IN /\ centries' = c
       /\ cheld' = Unshare(cheld, c)
       /\ cres' = OpRes("Sweep", "none", TRUE, FALSE)
       /\ clast' = [k \in Keys |-> IF centries[k].has /\ ~c[k].has
                                   THEN "Sweep" ELSE clast[k]]
       /\ UNCHANGED <<ckind, cnow, cstore>>

\* ---- the block cache over its table ----
\* Load holds the cache's lock for the lookup and again for storing the
\* result, not while the loader queries the table; Store runs the INSERT and
\* caches the block when that is done; DeleteBlockByID deletes the row
\* and then invalidates.  Calls from different goroutines interleave at
\* these points.

\* No call of GetBlock, PutBlock or DeleteBlockByID is in progress.
Quiet ==
    /\ \A g \in Getters : crace.get[g].pc = "idle"
    /\ crace.del.pc = "idle"
    /\ crace.put.pc = "idle"

\* relationshipDB.GetBlock up to the return of the cache lookup.  On a
\* hit Load returns the cached block: a barebones call is over, any
\* other goes on to the accounts.  On a miss the cache's lock is
\* released and the loader comes next.
LGetBlock(g, key, bare) ==
    LET r == get(centries, key, cnow)
    IN /\ crace.get[g].pc = "idle"
       /\ centries' = r.cache
       /\ IF r.ok
          THEN /\ cres' = OpRes("Load", key, TRUE, FALSE)
               /\ crace' = IF bare THEN crace
                           ELSE [crace EXCEPT !.get[g] =
                                   [pc |-> "accounts", key |-> key,
                                    row |-> NoRowAt, bare |-> bare]]
          ELSE /\ cres' = OpRes("Lookup", key, FALSE, FALSE)
               /\ crace' = [crace EXCEPT !.get[g] =
                              [pc |-> "missed", key |-> key,
                               row |-> NoRowAt, bare |-> bare]]
       /\ UNCHANGED <<ckind, cheld, cnow, cstore, clast>>

\* The loader of GetBlock: the SELECT reads the row (or finds none),
\* whatever the cache holds by now.
LGetBlockLoader(g) ==
    LET call == crace.get[g]
    IN /\ call.pc = "missed"
       /\ cres' = OpRes("Loader", call.key, cstore[call.key].has, TRUE)
       /\ crace' = [crace EXCEPT !.get[g] =
                      [call EXCEPT !.pc = "loaded", !.row = cstore[call.key]]]
       /\ UNCHANGED <<ckind, centries, cheld, cnow, cstore, clast>>

\* The rest of Load: the row the loader found is stored in the cache and
\* returned; without a row GetBlock returns the loader's error.
LGetBlockStore(g) ==
    LET call == crace.get[g]
    IN /\ call.pc = "loaded"
       /\ centries' = IF call.row.has
                      THEN set(centries, call.key, call.row.value, cnow)
                      ELSE centries
       /\ cres' = OpRes("Load", call.key, call.row.has, TRUE)
       /\ clast' = [clast EXCEPT ![call.key] = IF call.row.has THEN "Load" ELSE @]
       /\ crace' = [crace EXCEPT !.get[g] =
                      IF call.row.has /\ ~call.bare
                      THEN [call EXCEPT !.pc = "accounts"]
                      ELSE IdleGet]
       /\ UNCHANGED <<ckind, cheld, cnow, cstore>>

\* GetBlock of a full model: GetAccountByID fetches the source
\* account; its error ends the call.
LGetBlockAccount(g, fail) ==
    LET call == crace.get[g]
    IN /\ call.pc = "accounts"
       /\ IF fail
          THEN /\ cres' = OpRes("GetBlock", call.key, FALSE, FALSE)
               /\ crace' = [crace EXCEPT !.get[g] = IdleGet]
          ELSE /\ cres' = OpRes("Account", call.key, TRUE, FALSE)
               /\ crace' = [crace EXCEPT !.get[g] =
                               [call EXCEPT !.pc = "target"]]
       /\ UNCHANGED <<ckind, centries, cheld, cnow, cstore, clast>>

\* GetAccountByID then fetches the target account, and GetBlock returns
\* the block, or the error of the fetch.
LGetBlockTargetAccount(g, fail) ==
    LET call == crace.get[g]
    IN /\ call.pc = "target"
       /\ cres' = OpRes("GetBlock", call.key, ~fail, FALSE)
       /\ crace' = [crace EXCEPT !.get[g] = IdleGet]
       /\ UNCHANGED <<ckind, centries, cheld, cnow, cstore, clast>>

\* relationshipDB.PutBlock up to the return of the INSERT, which fails
\* on an error of the database or when the block is there already.
LPutBlock(v, fail) ==
    /\ crace.put.pc = "idle"
    /\ IF fail \/ cstore[v.id].has
       THEN /\ cres' = OpRes("Store", v.id, FALSE, FALSE)
            /\ UNCHANGED <<cstore, crace>>
       ELSE /\ cstore' = [cstore EXCEPT ![v.id] = [has |-> TRUE, value |-> v]]
            /\ cres' = OpRes("Insert", v.id, TRUE, FALSE)
            /\ crace' = [crace EXCEPT !.put = [pc |-> "inserted", value |-> v]]
    /\ UNCHANGED <<ckind, centries, cheld, cnow, clast>>

\* The rest of PutBlock: Store caches the block it inserted.
LPutBlockCache ==
    LET v == crace.put.value
    IN /\ crace.put.pc = "inserted"
       /\ centries' = set(centries, v.id, v, cnow)
       /\ cres' = OpRes("Store", v.id, TRUE, FALSE)
       /\ clast' = [clast EXCEPT ![v.id] = "Set"]
       /\ crace' = [crace EXCEPT !.put = IdlePut]
       /\ UNCHANGED <<ckind, cheld, cnow, cstore>>

\* relationshipDB.DeleteBlockByID up to the return of the DELETE: the
\* row is deleted, or the call returns the error of the database.
LDeleteBlockByID(id, fail) ==
    /\ crace.del.pc = "idle"
    /\ IF fail
       THEN /\ cres' = OpRes("Delete", id, FALSE, FALSE)
            /\ UNCHANGED <<cstore, crace>>
       ELSE /\ cstore' = [cstore EXCEPT ![id] = NoRowAt]
            /\ cres' = OpRes("DeleteRow", id, TRUE, FALSE)
            /\ crace' = [crace EXCEPT !.del = [pc |-> "deleted", key |-> id]]
    /\ UNCHANGED <<ckind, centries, cheld, cnow, clast>>

\* The rest of DeleteBlockByID: Caches.GTS.Block().Invalidate.
LDeleteBlockInvalidate ==
    /\ crace.del.pc = "deleted"
    /\ centries' = Invalidate(centries, crace.del.key)
    /\ cres' = OpRes("Delete", crace.del.key, TRUE, FALSE)
    /\ clast' = [clast EXCEPT ![crace.del.key] = "Invalidate"]
    /\ crace' = [crace EXCEPT !.del = IdleDelete]
    /\ UNCHANGED <<ckind, cheld, cnow, cstore>>

\* A plain read of the underlying cache.
LGet(key) ==
    LET r == get(centries, key, cnow)
    IN /\ centries' = r.cache
       /\ cres' = OpRes("Get", key, r.ok, FALSE)
       /\ UNCHANGED <<ckind, cheld, cnow, cstore, clast, crace>>

\* ---- mentions by ID (db/bundb/mention.go) ----

\* mentionDB.getMentionDB: select the mention; when there is one, put it
\* in the cache and return it.
getMentionDB(c, store, id, now) ==
    IF ~store[id].has THEN [err |-> TRUE, mention |-> NoValue, cache |-> c]
    ELSE [err |-> FALSE, mention |-> store[id].value,
          cache |-> MentionCacheSet(c, store[id].value, now).cache]

RECURSIVE GetMentionsFrom(_, _, _, _, _)
\* The loop of mentionDB.GetMentions over the IDs left: a cached mention
\* is appended, and then, cached or not, the mention is fetched from
\* the database and appended; an error of the fetch ends the call.
GetMentionsFrom(c, store, ids, mentions, now) ==
    IF ids = <<>> THEN [err |-> FALSE, mentions |-> mentions, cache |-> c]
    ELSE LET id == Head(ids)
             g == MentionCacheGet(c, id, now)
             cached == IF g.ok THEN Append(mentions, g.value) ELSE mentions
             d == getMentionDB(g.cache, store, id, now)
         IN IF d.err THEN [err |-> TRUE, mentions |-> <<>>, cache |-> d.cache]
            ELSE GetMentionsFrom(d.cache, store, Tail(ids),
                                 Append(cached, d.mention), now)

\* mentionDB.GetMentions.
GetMentions(c, store, ids, now) == GetMentionsFrom(c, store, ids, <<>>, now)

\* mentionDB.GetMention: the cached mention, or the one of the database.
GetMention(c, store, id, now) ==
    LET g == MentionCacheGet(c, id, now)
    IN IF g.ok THEN [err |-> FALSE, mention |-> g.value, cache |-> g.cache]
       ELSE getMentionDB(g.cache, store, id, now)

\* The lists of IDs a caller asks for.
IDLists == {<<>>} \cup {<<k>> : k \in Keys}
           \cup {<<j, k>> : j \in Keys, k \in Keys}

\* The last call of GetMentions: the IDs asked for and the mentions
\* returned.
MentionsRes(ids, r) ==
    [op |-> "GetMentions", key |-> "none", ok |-> ~r.err, loaded |-> TRUE,
     ids |-> ids, mentions |-> r.mentions]

\* A mention is written to the mentions table.
GMInsert(v) ==
    /\ ~cstore[v.id].has
    /\ cstore' = [cstore EXCEPT ![v.id] = [has |-> TRUE, value |-> v]]
    /\ cres' = OpRes("Insert", v.id, TRUE, FALSE)
    /\ UNCHANGED <<ckind, centries, cheld, cnow, clast>>

GMGetMention(id) ==
    LET r == GetMention(centries, cstore, id, cnow)
    IN /\ centries' = r.cache
       /\ cres' = OpRes("GetMention", id, ~r.err, TRUE)
       /\ UNCHANGED <<ckind, cheld, cnow, cstore, clast>>

GMGetMentions(ids) ==
    LET r == GetMentions(centries, cstore, ids, cnow)
    IN /\ centries' = r.cache
       /\ cres' = MentionsRes(ids, r)
       /\ UNCHANGED <<ckind, cheld, cnow, cstore, clast>>

\* ---- the TTL of a cache ----

\* The TTLs a caller sets, in minutes; zero means nothing expires.
TTLs == {0, 3, 5, 7}

\* Cache.SetTTL: c.ttl becomes ttl; with update the loop over the entries
\* computes entry.expiry.Add(diff) for each and drops the result, as
\* time.Time.Add returns the new time and leaves its receiver alone.
SetTTL(c, old, ttl, update) ==
    LET diff == ttl - old
        added == [k \in Keys |-> c[k].expiry + diff]
    IN [ttl |-> ttl, cache |-> c]

\* A caller sets the TTL.
TSetTTL(ttl, update) ==
    LET r == SetTTL(centries, cttl, ttl, update)
    IN /\ cttl' = r.ttl
       /\ centries' = r.cache
       /\ cres' = OpRes("SetTTL", "none", update, FALSE)
       /\ UNCHANGED <<ckind, cheld, cnow, cstore, clast>>

\* Cache.Set under the TTL of the moment: expiry = now + c.ttl.
TSet(v) ==
    /\ centries' = [centries EXCEPT ![v.id] = Entry(v, cnow + cttl)]
    /\ cres' = OpRes("Set", v.id, TRUE, FALSE)
    /\ clast' = [clast EXCEPT ![v.id] = "Set"]
    /\ UNCHANGED <<ckind, cheld, cnow, cstore, cttl>>

\* Cache.Put: place the value unless the key is cached already, in
\* which case the entry, its expiry included, stays as it is and Put
\* returns false.
TPut(v) ==
    /\ centries' = IF centries[v.id].has THEN centries
                   ELSE [centries EXCEPT ![v.id] = Entry(v, cnow + cttl)]
    /\ cres' = OpRes("Put", v.id, ~centries[v.id].has, FALSE)
    /\ clast' = [clast EXCEPT ![v.id] = IF centries[v.id].has THEN @ ELSE "Set"]
    /\ UNCHANGED <<ckind, cheld, cnow, cstore, cttl>>

-----------------------------------------------------------------------------
(*                THE INDICES OF THE STATUS AND ACCOUNT CACHES             *)
(*      internal/cache/status.go (StatusCache) and AccountCache            *)

\* Number of times the clock of the indexed cache advances by one TTL.
MaxLapses == 2

\* URIs and URLs of the cached statuses / accounts; the URL "" is a URL
\* that is not set.
URIs == {"u1", "u2"}
URLs == {"x1", "x2"}
\* No ID under a key of the uris / urls maps.
NoID == "none"

\* A status / account as the cache sees it: ID, URI, URL.
Item(id, uri, url) == [id |-> id, uri |-> uri, url |-> url, assoc |-> {}]

\* delete(m, key) of a map: nothing happens when the key is not there.
delete(m, key) == IF key \in DOMAIN m THEN [m EXCEPT ![key] = NoID] ELSE m

\* The two index maps.
Index(uris, urls) == [uris |-> uris, urls |-> urls]

evictHook_KeepsURL(ix, value) == Index(delete(ix.uris, value.uri), ix.urls)

\* The hook SetEvictionCallback installs: remove the lookups of the
\* evicted value.
evictHook(ix, value) ==
    Index(delete(ix.uris, value.uri), delete(ix.urls, value.url))

\* The hook SetUpdateCallback installs: when the URI / URL of the value
\* under a key changes, move the lookups.
updateHook(ix, old, new) ==
    LET uris == IF old.uri # new.uri
                THEN [delete(ix.uris, old.uri) EXCEPT ![new.uri] = new.id]
                ELSE ix.uris
        dropped == IF old.url # new.url /\ old.url # ""
                   THEN delete(ix.urls, old.url) ELSE ix.urls
        urls == IF old.url # new.url /\ new.url # ""
                THEN [dropped EXCEPT ![new.url] = new.id] ELSE dropped
    IN Index(uris, urls)

\* The cache with its index maps.
Lookup(cache, uris, urls) == [cache |-> cache, uris |-> uris, urls |-> urls]

\* StatusCache.Set / AccountCache.Set: Cache.set of a copy (calling the
\* update hook when the key is cached already), then the lookups.
IndexedSet(L, v, now) ==
    LET new == copyStatus(v)
        old == L.cache[v.id]
        ix == IF old.has
              THEN updateHook(Index(L.uris, L.urls), old.value, new)
              ELSE Index(L.uris, L.urls)
    IN Lookup(set(L.cache, v.id, new, now),
              [ix.uris EXCEPT ![v.uri] = v.id],
              IF v.url # "" THEN [ix.urls EXCEPT ![v.url] = v.id] ELSE ix.urls)

\* Cache.Evict of the indexed cache: the evict hook, then the delete.
IndexedEvict(L, key) ==
    LET r == Evict(L.cache, key)
        ix == IF r.ok THEN evictHook(Index(L.uris, L.urls), L.cache[key].value)
              ELSE Index(L.uris, L.urls)
    IN [ok |-> r.ok, L |-> Lookup(r.cache, ix.uris, ix.urls)]

RECURSIVE evictAll(_, _, _)
\* The evict hook called for each of the keys ks of cache c.
evictAll(ix, c, ks) ==
    IF ks = {} THEN ix
    ELSE LET k == CHOOSE x \in ks : TRUE
         IN evictAll(evictHook(ix, c[k].value), c, ks \ {k})

\* Cache.sweep of the indexed cache: every entry the sweep removes goes
\* through the evict hook.
IndexedSweep(L, now) ==
    LET c == sweep(L.cache, now)
        gone == {k \in Keys : L.cache[k].has /\ ~c[k].has}
        ix == evictAll(Index(L.uris, L.urls), L.cache, gone)
    IN [hooks |-> gone, L |-> Lookup(c, ix.uris, ix.urls)]

\* getByID: Cache.get and a copy.
getByID(L, id, now) ==
    LET r == get(L.cache, id, now)
    IN [ok |-> r.ok, value |-> IF r.ok THEN copyStatus(r.value) ELSE NoValue,
        L |-> Lookup(r.cache, L.uris, L.urls)]

\* GetByURI / GetByURL: the ID under the URI / URL, then getByID.
GetByURI(L, uri, now) ==
    IF L.uris[uri] = NoID THEN [ok |-> FALSE, value |-> NoValue, L |-> L]
    ELSE getByID(L, L.uris[uri], now)

GetByURL(L, url, now) ==
    IF L.urls[url] = NoID THEN [ok |-> FALSE, value |-> NoValue, L |-> L]
    ELSE getByID(L, L.urls[url], now)

\* ---- the indexed cache as a state machine ----

NoLRes == [op |-> "none", key |-> "none", ok |-> FALSE, hooks |-> {}]
LRes(op, key, ok, hooks) == [op |-> op, key |-> key, ok |-> ok, hooks |-> hooks]

LookupInit ==
    /\ lcache = EmptyCache
    /\ luris = [u \in URIs |-> NoID]
    /\ lurls = [x \in URLs |-> NoID]
    /\ lnow = 0
    /\ lres = NoLRes

\* The cache and its maps, now.
Lnow == Lookup(lcache, luris, lurls)

IdxSet(v) ==
    LET L == IndexedSet(Lnow, v, lnow)
    IN /\ lcache' = L.cache
       /\ luris' = L.uris
       /\ lurls' = L.urls
       /\ lres' = LRes("Set", v.id, TRUE, {})
       /\ UNCHANGED lnow

IdxGetByID(id) ==
    LET r == getByID(Lnow, id, lnow)
    IN /\ lcache' = r.L.cache
       /\ lres' = LRes("GetByID", id, r.ok, {})
       /\ UNCHANGED <<luris, lurls, lnow>>

IdxGetByURI(uri) ==
    LET r == GetByURI(Lnow, uri, lnow)
    IN /\ lcache' = r.L.cache
       /\ lres' = LRes("GetByURI", uri, r.ok, {})
       /\ UNCHANGED <<luris, lurls, lnow>>

IdxGetByURL(url) ==
    LET r == GetByURL(Lnow, url, lnow)
    IN /\ lcache' = r.L.cache
       /\ lres' = LRes("GetByURL", url, r.ok, {})
       /\ UNCHANGED <<luris, lurls, lnow>>

IdxEvict(key) ==
    LET r == IndexedEvict(Lnow, key)
    IN /\ lcache' = r.L.cache
       /\ luris' = r.L.uris
       /\ lurls' = r.L.urls
       /\ lres' = LRes("Evict", key, r.ok, IF r.ok THEN {key} ELSE {})
       /\ UNCHANGED lnow

\* The cleanup goroutine's sweep.
IdxSweep ==
    LET r == IndexedSweep(Lnow, lnow)
    IN /\ lcache' = r.L.cache
       /\ luris' = r.L.uris
       /\ lurls' = r.L.urls
       /\ lres' = LRes("Sweep", "none", TRUE, r.hooks)
       /\ UNCHANGED lnow

\* One TTL goes by.
IdxTick ==
    /\ lnow < MaxLapses * DefaultTTL
    /\ lnow' = lnow + DefaultTTL
    /\ lres' = LRes("Tick", "none", TRUE, {})
    /\ UNCHANGED <<lcache, luris, lurls>>

-----------------------------------------------------------------------------
(*                            THE WORKER POOL                              *)
(*                    internal/concurrency/workers.go                      *)

\* Messages queued per behaviour.
MaxMsgs == 3

MsgIDs == 1..MaxMsgs
\* What the processor does with a message: return nil, return an error,
\* or panic.
Outcomes == {"ok", "err", "panic"}

RunTask_Requeue(queue, log, id, out) ==
    [queue |-> IF out = "err" THEN Append(queue, id) ELSE queue,
     log |-> IF out = "err" THEN Append(log, id) ELSE log,
     escaped |-> out = "panic"]

\* The task Queue hands to the runner:
\*   if err := w.process(ctx, msg); err != nil { log.Errorf(...) }
\* run for message id whose processing ends as out.  An error is logged
\* and nothing else; a panic is not recovered and leaves the function.
RunTask(queue, log, id, out) ==
    [queue |-> queue,
     log |-> IF out = "err" THEN Append(log, id) ELSE log,
     escaped |-> out = "panic"]

PoolInit ==
    /\ pprocess = FALSE
    /\ pstarted = FALSE
    /\ pout = [i \in MsgIDs |-> "none"]
    /\ pqueue = <<>>
    /\ pwork = [w \in Workers |-> 0]
    /\ pdone = [i \in MsgIDs |-> 0]
    /\ plog = <<>>
    /\ pcrashed = FALSE
    /\ pret = "none"

\* Messages queued so far.
Queued == {i \in MsgIDs : pout[i] # "none"}

\* WorkerPool.SetProcessor: set once; a second call panics in the caller.
SetProcessor ==
    /\ ~pcrashed
    /\ ~pprocess
    /\ pprocess' = TRUE
    /\ UNCHANGED <<pstarted, pout, pqueue, pwork, pdone, plog, pcrashed, pret>>

Start_WithoutProcessor ==
    /\ ~pcrashed
    /\ IF pstarted
       THEN pret' = "error:failed to start" /\ UNCHANGED pstarted
       ELSE pret' = "nil" /\ pstarted' = TRUE
    /\ UNCHANGED <<pprocess, pout, pqueue, pwork, pdone, plog, pcrashed>>

\* WorkerPool.Start: an error when no processor is set or the pool
\* already runs.
Start ==
    /\ ~pcrashed
    /\ IF ~pprocess
       THEN pret' = "error:nil process" /\ UNCHANGED pstarted
       ELSE IF pstarted
       THEN pret' = "error:failed to start" /\ UNCHANGED pstarted
       ELSE pret' = "nil" /\ pstarted' = TRUE
    /\ UNCHANGED <<pprocess, pout, pqueue, pwork, pdone, plog, pcrashed>>

\* WorkerPool.Stop: an error when the pool does not run; otherwise the
\* pool stops taking tasks.  A worker inside a task ends it; the tasks
\* still queued are the runner's to keep for a later Start or to drop.
Stop(drops) ==
    /\ ~pcrashed
    /\ IF ~pstarted
       THEN pret' = "error:failed to stop" /\ UNCHANGED <<pstarted, pqueue>>
       ELSE /\ pret' = "nil"
            /\ pstarted' = FALSE
            /\ pqueue' = IF drops THEN <<>> ELSE pqueue
    /\ UNCHANGED <<pprocess, pout, pwork, pdone, plog, pcrashed>>

\* WorkerPool.Queue: enqueue the task of the next message.
Queue(out) ==
    /\ ~pcrashed
    /\ pstarted
    /\ Queued # MsgIDs
    /\ LET id == Cardinality(Queued) + 1
       IN /\ pout' = [pout EXCEPT ![id] = out]
          /\ pqueue' = Append(pqueue, id)
    /\ UNCHANGED <<pprocess, pstarted, pwork, pdone, plog, pcrashed, pret>>

\* An idle worker takes the task at the head of the queue.
Take(w) ==
    /\ ~pcrashed
    /\ pstarted
    /\ pwork[w] = 0
    /\ pqueue # <<>>
    /\ pwork' = [pwork EXCEPT ![w] = Head(pqueue)]
    /\ pqueue' = Tail(pqueue)
    /\ UNCHANGED <<pprocess, pstarted, pout, pdone, plog, pcrashed, pret>>

\* The worker runs the task to its end.  A panic that left the task is
\* the runner's to deal with: it recovers and the worker goes on, or it
\* does not and the goroutine's panic ends the process.
Run(w, recovers) ==
    /\ ~pcrashed
    /\ pwork[w] # 0
    /\ LET id == pwork[w]
           r == RunTask(pqueue, plog, id, pout[id])
       IN /\ pdone' = [pdone EXCEPT ![id] = @ + 1]
          /\ pqueue' = r.queue
          /\ plog' = r.log
          /\ pcrashed' = (r.escaped /\ ~recovers)
          /\ pwork' = [pwork EXCEPT ![w] = 0]
    /\ UNCHANGED <<pprocess, pstarted, pout, pret>>

-----------------------------------------------------------------------------
(*                        THE STATUS MUTES FILTER                          *)
(*                       internal/filter/mutes                             *)

\* The clock of the mutes filter runs from 1 to MaxNow; 0 is the zero
\* time, an expiry that is not set.
MaxNow == 2

\* gtsmodel.UserMute, as far as the filter reads it.
UserMutes == [ExpiresAt : 0..MaxNow, Notifications : BOOLEAN]

\* cache.CachedMute.
CachedMute(mute, muteExpiry, notifs, notifExpiry) ==
    [Mute |-> mute, MuteExpiry |-> muteExpiry,
     Notifications |-> notifs, NotificationExpiry |-> notifExpiry]
ZeroMute == CachedMute(FALSE, 0, FALSE, 0)

\* CachedMute.MuteExpired / NotificationExpired.
MuteExpired(m, now) == m.MuteExpiry # 0 /\ ~(m.MuteExpiry > now)
NotificationExpired(m, now) ==
    m.NotificationExpiry # 0 /\ ~(m.NotificationExpiry > now)

\* The latest of a set of times, the zero time when there is none.
Latest(S) == IF S = {} THEN 0 ELSE CHOOSE t \in S : \A u \in S : u <= t

\* The loader of getStatusMuteDetails: the decision for a status from
\* the thread mute and the user mutes, at time now.  A user mute whose
\* expiry is before now is left out.
loadStatusMute(thread, mutes, now) ==
    LET live == {mu \in mutes : mu.ExpiresAt = 0 \/ ~(mu.ExpiresAt < now)}
        noisy == {mu \in live : mu.Notifications}
    IN CachedMute(live # {},
                  Latest({mu.ExpiresAt : mu \in live}),
                  thread \/ noisy # {},
                  Latest({mu.ExpiresAt : mu \in noisy}))

NoCached == [has |-> FALSE, d |-> ZeroMute]
Cached(d) == [has |-> TRUE, d |-> d]

StatusMuted_IgnoresExpiry(details, now) ==
    [muted |-> details.Mute,
     withExpiry |-> details.Mute /\ details.MuteExpiry # 0]

\* Filter.StatusMuted, from the details on.
StatusMuted(details, now) ==
    IF ~details.Mute THEN [muted |-> FALSE, withExpiry |-> FALSE]
    ELSE IF details.MuteExpiry = 0 THEN [muted |-> TRUE, withExpiry |-> FALSE]
    ELSE [muted |-> details.MuteExpiry > now, withExpiry |-> TRUE]

\* Filter.StatusNotificationsMuted, from the details on.
StatusNotificationsMuted(details, now) ==
    IF ~details.Notifications THEN [muted |-> FALSE, withExpiry |-> FALSE]
    ELSE IF details.NotificationExpiry = 0
    THEN [muted |-> TRUE, withExpiry |-> FALSE]
    ELSE [muted |-> details.NotificationExpiry > now, withExpiry |-> TRUE]

\* ---- the filter as a state machine ----

\* The status is not threaded (ThreadID is empty), or it is and the
\* requester has not muted its thread, or has.
Threads == {"unthreaded", "unmuted", "muted"}

\* The last call and what it returned: now is the time the call took,
\* hit whether the decision came from the cache, err the error returned
\* ("none", "no entries" for the not-found error of the database, "db
\* error" for any other).  said tells whether the requester's last call
\* of StatusMuted returned false while no user mute was stored; dropped
\* whether the last PutMute came after such a call, with no call of the
\* filter in progress.
NoMRes == [op |-> "none", authed |-> FALSE, hit |-> FALSE, now |-> 0,
           muted |-> FALSE, withExpiry |-> FALSE, err |-> "none",
           said |-> FALSE, dropped |-> FALSE]

\* The accounts related to the status, in the order the loader asks for
\* the requester's mute of them: the author, then the mention target.
RelatedAccounts == <<"author", "mentioned">>
Related == {RelatedAccounts[i] : i \in 1..Len(RelatedAccounts)}

\* The mutes table: per related account the requester's mute of it, if
\* any; and the mutes in it.
NoMutes == [a \in Related |-> {}]
StoredMutes(table) == UNION {table[a] : a \in Related}

\* The goroutine calling the filter next to those that store mutes,
\* and where its call is: pc names what comes next (the lookup in the
\* cache, the query of the thread mute, the query of the mute of related
\* account number next, the caching of the decision); op is the function
\* called, now the time the call took, thread and mutes what the loader
\* has read so far, d the decision it made of them.
MuteCallers == {"c1"}
IdleMute == [pc |-> "idle", op |-> "none", now |-> 0, thread |-> FALSE,
             mutes |-> {}, next |-> 0, d |-> ZeroMute]
NoMuteCalls == \A c \in MuteCallers : mcall[c].pc = "idle"

MuteInit ==
    /\ mthread = "unthreaded"
    /\ mmutes = NoMutes
    /\ mcached = NoCached
    /\ mnow = 1
    /\ mres = NoMRes
    /\ mcall = [c \in MuteCallers |-> IdleMute]

\* What the function op makes of the details.
MutedBy(op, details, now) ==
    IF op = "StatusMuted" THEN StatusMuted(details, now)
    ELSE StatusNotificationsMuted(details, now)

\* Function op returns r, or false and the error err of
\* getStatusMuteDetails.
MRes(op, authed, hit, now, r) ==
    [op |-> op, authed |-> authed, hit |-> hit, now |-> now,
     muted |-> r.muted, withExpiry |-> r.withExpiry, err |-> "none",
     said |-> IF op = "StatusMuted" /\ authed
              THEN ~r.muted /\ StoredMutes(mmutes) = {}
              ELSE mres.said,
     dropped |-> mres.dropped]
MErr(op, now, err) ==
    [MRes(op, TRUE, FALSE, now, [muted |-> FALSE, withExpiry |-> FALSE])
        EXCEPT !.err = err]

\* A step of a call that has not returned yet.
MStepped(what) ==
    [NoMRes EXCEPT !.op = what, !.said = mres.said, !.dropped = mres.dropped]

\* getStatusMuteDetails for function op up to time.Now().  Without a
\* requester the call is over with the zero decision and the zero time.
MGetDetails(c, op, authed) ==
    /\ mcall[c].pc = "idle"
    /\ IF ~authed
       THEN /\ mres' = MRes(op, FALSE, FALSE, 0, MutedBy(op, ZeroMute, 0))
            /\ UNCHANGED mcall
       ELSE /\ mres' = MStepped("Now")
            /\ mcall' = [mcall EXCEPT ![c] =
                           [IdleMute EXCEPT !.pc = "lookup", !.op = op,
                                            !.now = mnow]]
    /\ UNCHANGED <<mthread, mmutes, mcached, mnow>>

\* A call of StatusMuted, with or without a requester, up to there.
MStatusMuted(c, authed) == MGetDetails(c, "StatusMuted", authed)

\* A call of StatusNotificationsMuted up to there.
MStatusNotificationsMuted(c, authed) ==
    MGetDetails(c, "StatusNotificationsMuted", authed)

\* The lookup of LoadOne: a cached decision is returned and the function
\* answers from it and from the time the call took; on a miss the
\* cache's lock is released and the loader comes next.  For a status
\* without a thread getStatusThreadMute returns no mute without asking
\* the database.
MLoadOne(c) ==
    LET call == mcall[c]
    IN /\ call.pc = "lookup"
       /\ IF mcached.has
          THEN /\ mres' = MRes(call.op, TRUE, TRUE, call.now,
                               MutedBy(call.op, mcached.d, call.now))
               /\ mcall' = [mcall EXCEPT ![c] = IdleMute]
          ELSE /\ mres' = MStepped("Lookup")
               /\ mcall' = [mcall EXCEPT ![c] =
                              IF mthread = "unthreaded"
                              THEN [@ EXCEPT !.pc = "mute", !.next = 1]
                              ELSE [@ EXCEPT !.pc = "thread"]]
       /\ UNCHANGED <<mthread, mmutes, mcached, mnow>>

\* DB.GetThreadMutedByAccount: the requester's mute of the thread, or
\* an error, which for a thread the requester has not muted is the
\* database's not-found error.
GetThreadMutedByAccount(thread, fail) ==
    IF fail THEN "db error"
    ELSE IF thread = "muted" THEN "none" ELSE "no entries"

\* The loader's getStatusThreadMute on a status with a thread: the mute
\* GetThreadMutedByAccount found, or its error, whatever it is.  An
\* error ends the loader and the call, and no decision is cached.
MGetStatusThreadMute(c, fail) ==
    LET call == mcall[c]
        err == GetThreadMutedByAccount(mthread, fail)
    IN /\ call.pc = "thread"
       /\ IF err # "none"
          THEN /\ mres' = MErr(call.op, call.now, err)
               /\ mcall' = [mcall EXCEPT ![c] = IdleMute]
          ELSE /\ mres' = MStepped("Loader")
               /\ mcall' = [mcall EXCEPT ![c] =
                              [@ EXCEPT !.pc = "mute", !.thread = TRUE,
                                        !.next = 1]]
       /\ UNCHANGED <<mthread, mmutes, mcached, mnow>>

\* The loader's getStatusRelatedUserMutes, one GetMute at a time: the
\* mute of the next related account is read, none being no error; any
\* other error of the database ends the loader and the call.  After the
\* last one the loader makes the decision of what it read, at the time
\* the call took.
MGetMute(c, fail) ==
    LET call == mcall[c]
        read == call.mutes \cup mmutes[RelatedAccounts[call.next]]
    IN /\ call.pc = "mute"
       /\ IF fail
          THEN /\ mres' = MErr(call.op, call.now, "db error")
               /\ mcall' = [mcall EXCEPT ![c] = IdleMute]
          ELSE /\ mres' = MStepped("Loader")
               /\ mcall' = [mcall EXCEPT ![c] =
                      IF call.next < Len(RelatedAccounts)
                      THEN [call EXCEPT !.mutes = read, !.next = @ + 1]
                      ELSE [call EXCEPT !.pc = "loaded", !.mutes = read,
                                        !.d = loadStatusMute(call.thread, read,
                                                             call.now)]]
       /\ UNCHANGED <<mthread, mmutes, mcached, mnow>>

\* The rest of a call that ran the loader: LoadOne caches the decision
\* and the function answers from it and from the time the call took.
MLoadStore(c) ==
    LET call == mcall[c]
    IN /\ call.pc = "loaded"
       /\ mcached' = Cached(call.d)
       /\ mres' = MRes(call.op, TRUE, FALSE, call.now,
                       MutedBy(call.op, call.d, call.now))
       /\ mcall' = [mcall EXCEPT ![c] = IdleMute]
       /\ UNCHANGED <<mthread, mmutes, mnow>>

\* The requester mutes account a, related to the status and not muted
\* yet; the cached decision is invalidated.
MPutMute(a, mu) ==
    /\ mmutes[a] = {}
    /\ mu.ExpiresAt = 0 \/ mu.ExpiresAt >= mnow
    /\ mmutes' = [mmutes EXCEPT ![a] = {mu}]
    /\ mcached' = NoCached
    /\ mres' = [NoMRes EXCEPT !.op = "PutMute",
                              !.dropped = mres.said /\ NoMuteCalls]
    /\ UNCHANGED <<mthread, mnow, mcall>>

MTick ==
    /\ mnow < MaxNow
    /\ mnow' = mnow + 1
    /\ mres' = MStepped("Tick")
    /\ UNCHANGED <<mthread, mmutes, mcached, mcall>>

-----------------------------------------------------------------------------
(*                        THE OUTGOING HTTP CLIENT                         *)
(*                      internal/httpclient/client.go                      *)

\* The callers of the client and of the client API processors.
Callers == {"c1", "c2", "c3"}

\* httpclient.New: cmax is the MaxOpenConns of the configuration, here
\* one connection per host.  The queue cache and the calls of
\* Client.Do are followed in the queue cache section below.
ClientInit == hcmax = 1

-----------------------------------------------------------------------------
(*                       THE CLIENT API PROCESSORS                         *)
(*          internal/processing/account/block.go, status/fave.go           *)

\* The requester is account a1; a0 is an ID no account has.
Accounts == {"a1", "a2"}
Requester == "a1"
Targets == Accounts \cup {"a0"}

\* messages.FromClientAPI, as far as the processors fill it in: the
\* activity, the object type and the URI of the model.
ClientMsg(act, obj, uri) ==
    [APActivityType |-> act, APObjectType |-> obj, URI |-> uri]
MsgUndoFollowRequest == ClientMsg("Undo", "Follow", "uri:followRequest")
MsgUndoFollow == ClientMsg("Undo", "Follow", "uri:follow")
MsgCreateBlock == ClientMsg("Create", "Block", "uri:block")
MsgCreateLike == ClientMsg("Create", "Like", "uri:like")
MsgUndoBlock == ClientMsg("Undo", "Block", "uri:block")
MsgUndoLike == ClientMsg("Undo", "Like", "uri:like")

\* Calls of a processor begun per behaviour.
MaxRequests == 3

\* What a step of a call left behind: the call, the database and the
\* messages the step enqueued.
Left(call, db, msgs) == [call |-> call, db |-> db, msgs |-> msgs]

\* A call of BlockCreate or BlockRemove about to make its first database
\* call.  pc names the call on a collaborator that comes next; stored,
\* frChanged and fChanged tell that the call stored the block, deleted
\* the requester's follow request and deleted the requester's follow;
\* sent is the set of messages it enqueued.
BlockCall(op, tgt) ==
    [pc |-> "GetAccountByID", op |-> op, target |-> tgt, stored |-> FALSE,
     frChanged |-> FALSE, fChanged |-> FALSE, sent |-> {}, ret |-> "none"]
At(call, pc) == [call EXCEPT !.pc = pc]
Returned(call, ret) == [call EXCEPT !.pc = "done", !.ret = ret]
Sent(call, msg, pc) == [call EXCEPT !.pc = pc, !.sent = @ \cup {msg}]

\* BlockCreate after the lookups of the requester's own follow request
\* and follow: one EnqueueClientAPI for each row deleted, then one for
\* the block.
FirstEnqueue(call) ==
    IF call.frChanged THEN "EnqueueUndoFollowRequest"
    ELSE IF call.fChanged THEN "EnqueueUndoFollow"
    ELSE "EnqueueCreateBlock"

\* Processor.BlockCreate of the requester on account call.target, one
\* call on a collaborator at a time: the call named by call.pc is made on
\* database db and returns an error when fail is set.  The blocks table
\* holds one block per pair of accounts: the insert of a second one, by
\* a call that passed IsBlocked before the first was stored, is refused.
BlockCreate(call, db, fail) ==
    LET pair == <<Requester, call.target>>
        back == <<call.target, Requester>>
        err == Left(Returned(call, "internal error"), db, <<>>)
    IN CASE call.pc = "GetAccountByID" ->
              IF call.target \notin Accounts \/ fail
              THEN Left(Returned(call, "not found"), db, <<>>)
              ELSE Left(At(call, "IsBlocked"), db, <<>>)
         [] call.pc = "IsBlocked" ->
              IF fail THEN err
              ELSE IF pair \in db.blocks
              THEN Left(At(call, "RelationshipGet"), db, <<>>)
              ELSE IF Requester = call.target
              THEN Left(Returned(call, "not acceptable"), db, <<>>)
              ELSE Left(At(call, "PutBlock"), db, <<>>)
         [] call.pc = "PutBlock" ->
              IF fail \/ pair \in db.blocks THEN err
              ELSE Left([call EXCEPT !.pc = "DeleteWhereFollow",
                                     !.stored = TRUE],
                        [db EXCEPT !.blocks = @ \cup {pair}], <<>>)
         [] call.pc = "DeleteWhereFollow" ->
              IF fail THEN err
              ELSE Left(At(call, "DeleteWhereFollowRequest"),
                        [db EXCEPT !.follows = @ \ {back}], <<>>)
         [] call.pc = "DeleteWhereFollowRequest" ->
              IF fail THEN err
              ELSE Left(At(call, "GetWhereFollowRequest"),
                        [db EXCEPT !.followReqs = @ \ {back}], <<>>)
         [] call.pc = "GetWhereFollowRequest" ->
              IF ~fail /\ pair \in db.followReqs
              THEN Left(At(call, "DeleteFollowRequest"), db, <<>>)
              ELSE Left(At(call, "GetWhereFollow"), db, <<>>)
         [] call.pc = "DeleteFollowRequest" ->
              IF fail THEN err
              ELSE Left([call EXCEPT !.pc = "GetWhereFollow",
                                     !.frChanged = TRUE],
                        [db EXCEPT !.followReqs = @ \ {pair}], <<>>)
         [] call.pc = "GetWhereFollow" ->
              IF ~fail /\ pair \in db.follows
              THEN Left(At(call, "DeleteFollow"), db, <<>>)
              ELSE Left(At(call, FirstEnqueue(call)), db, <<>>)
         [] call.pc = "DeleteFollow" ->
              IF fail THEN err
              ELSE LET c1 == [call EXCEPT !.fChanged = TRUE]
                   IN Left(At(c1, FirstEnqueue(c1)),
                           [db EXCEPT !.follows = @ \ {pair}], <<>>)
         [] call.pc = "EnqueueUndoFollowRequest" ->
              Left(Sent(call, MsgUndoFollowRequest,
                        IF call.fChanged THEN "EnqueueUndoFollow"
                        ELSE "EnqueueCreateBlock"),
                   db, <<MsgUndoFollowRequest>>)
         [] call.pc = "EnqueueUndoFollow" ->
              Left(Sent(call, MsgUndoFollow, "EnqueueCreateBlock"),
                   db, <<MsgUndoFollow>>)
         [] call.pc = "EnqueueCreateBlock" ->
              Left(Sent(call, MsgCreateBlock, "RelationshipGet"),
                   db, <<MsgCreateBlock>>)
         [] OTHER ->
              Left(Returned(call, IF fail THEN "internal error"
                                  ELSE "relationship"), db, <<>>)

\* Processor.BlockRemove of the requester on account call.target, one
\* call on a collaborator at a time.
BlockRemove(call, db, fail) ==
    LET pair == <<Requester, call.target>>
        err == Left(Returned(call, "internal error"), db, <<>>)
    IN CASE call.pc = "GetAccountByID" ->
              IF call.target \notin Accounts \/ fail
              THEN Left(Returned(call, "not found"), db, <<>>)
              ELSE Left(At(call, "GetBlock"), db, <<>>)
         [] call.pc = "GetBlock" ->
              IF fail THEN err
              ELSE IF pair \in db.blocks
              THEN Left(At(call, "DeleteBlockByID"), db, <<>>)
              ELSE Left(At(call, "RelationshipGet"), db, <<>>)
         [] call.pc = "DeleteBlockByID" ->
              IF fail THEN err
              ELSE Left(At(call, "EnqueueUndoBlock"),
                        [db EXCEPT !.blocks = @ \ {pair}], <<>>)
         [] call.pc = "EnqueueUndoBlock" ->
              Left(Sent(call, MsgUndoBlock, "RelationshipGet"),
                   db, <<MsgUndoBlock>>)
         [] OTHER ->
              Left(Returned(call, IF fail THEN "internal error"
                                  ELSE "relationship"), db, <<>>)

\* ---- FaveCreate and FaveRemove ----

\* DB.PutStatusFave of a fave of the requester on the status: an insert
\* of a row with the ID FaveCreate has just made (id.NewULID), which no
\* other row has.  An error of the database is the caller's input.
PutStatusFave(db, id) ==
    [db |-> [db EXCEPT !.faves = @ \cup {id}, !.made = @ + 1],
     err |-> "none"]

\* A caller outside the processors, and a call of FaveCreate or
\* FaveRemove: pc names the call on a collaborator that comes next; fave
\* is the ID of the fave getFaveTarget found (0: none), found tells that
\* it found one; stored, deleted and sent tell that the call stored a
\* fave, deleted one and enqueued its message.
IdleFave == [pc |-> "idle", op |-> "none", fave |-> 0, found |-> FALSE,
             stored |-> FALSE, deleted |-> FALSE, sent |-> FALSE,
             ret |-> "none"]
FaveCall(op) == [IdleFave EXCEPT !.pc = "GetVisibleTargetStatus", !.op = op]

\* ---- the processors as a state machine ----

\* xres counts the calls begun and keeps the last one that returned.
NoXRes == [op |-> "none", target |-> "none", ret |-> "none", n |-> 0]
EmptyTables == [blocks |-> {}, follows |-> {}, followReqs |-> {},
                faves |-> {}, made |-> 0, likeable |-> TRUE]

ProcInit ==
    /\ xdb = EmptyTables
    /\ xqueue = <<>>
    /\ xcalls = [c \in Callers |-> IdleFave]
    /\ xres = NoXRes

\* The step r of caller c's call of BlockCreate or BlockRemove takes
\* effect; began tells that it is the first of the call.
BlockStepped(c, r, began) ==
    /\ xdb' = r.db
    /\ xqueue' = xqueue \o r.msgs
    /\ xcalls' = [xcalls EXCEPT ![c] = r.call]
    /\ xres' = [op |-> IF r.call.pc = "done" THEN r.call.op ELSE xres.op,
                target |-> IF r.call.pc = "done" THEN r.call.target
                           ELSE xres.target,
                ret |-> IF r.call.pc = "done" THEN r.call.ret ELSE xres.ret,
                n |-> IF began THEN xres.n + 1 ELSE xres.n]

\* Caller c calls BlockCreate on account tgt: the call runs up to the
\* return of GetAccountByID.
XBlockCreate(c, tgt, fail) ==
    /\ xcalls[c].pc \in {"idle", "done"}
    /\ xres.n < MaxRequests
    /\ BlockStepped(c, BlockCreate(BlockCall("BlockCreate", tgt), xdb, fail),
                    TRUE)

\* Caller c calls BlockRemove on account tgt: the call runs up to the
\* return of GetAccountByID.
XBlockRemove(c, tgt, fail) ==
    /\ xcalls[c].pc \in {"idle", "done"}
    /\ xres.n < MaxRequests
    /\ BlockStepped(c, BlockRemove(BlockCall("BlockRemove", tgt), xdb, fail),
                    TRUE)

\* Caller c's call of BlockCreate or BlockRemove makes its next call on
\* the database or the queue.
XBlockStep(c, fail) ==
    /\ xcalls[c].pc \notin {"idle", "done"}
    /\ BlockStepped(c, IF xcalls[c].op = "BlockCreate"
                       THEN BlockCreate(xcalls[c], xdb, fail)
                       ELSE BlockRemove(xcalls[c], xdb, fail),
                    FALSE)

\* Caller c calls FaveCreate or FaveRemove: getFaveTarget up to the
\* return of GetVisibleTargetStatus; the status must be visible and
\* likeable.
FGetVisibleTargetStatus(c, op, fail) ==
    /\ xcalls[c].pc \in {"idle", "done"}
    /\ xres.n < MaxRequests
    /\ xcalls' = [xcalls EXCEPT ![c] =
           IF fail THEN Returned(FaveCall(op), "not found")
           ELSE IF ~xdb.likeable THEN Returned(FaveCall(op), "forbidden")
           ELSE At(FaveCall(op), "GetStatusFave")]
    /\ xres' = [xres EXCEPT !.n = @ + 1]
    /\ UNCHANGED <<xdb, xqueue>>

\* The rest of getFaveTarget, and what the caller does with the fave it
\* returns: FaveCreate has nothing to store when there is one,
\* FaveRemove nothing to delete when there is none, and goes on to
\* GetAPIStatus.
FGetStatusFave(c, fail) ==
    /\ xcalls[c].pc = "GetStatusFave"
    /\ LET call == xcalls[c]
           found == xdb.faves # {}
           got == [call EXCEPT !.found = found,
                               !.fave = IF found
                                        THEN CHOOSE id \in xdb.faves : TRUE
                                        ELSE 0]
       IN xcalls' = [xcalls EXCEPT ![c] =
              IF fail THEN Returned(call, "internal error")
              ELSE IF call.op = "FaveCreate"
              THEN IF found THEN At(got, "GetAPIStatus")
                   ELSE At(got, "PutStatusFave")
              ELSE IF found THEN At(got, "DeleteStatusFaveByID")
                   ELSE At(got, "GetAPIStatus")]
    /\ UNCHANGED <<xdb, xqueue, xres>>

\* FaveCreate stores the new fave; an error of the database, whatever
\* it is, ends the call before anything is enqueued.
FPutStatusFave(c, fail) ==
    /\ xcalls[c].pc = "PutStatusFave"
    /\ LET r == IF fail THEN [db |-> xdb, err |-> "db error"]
                ELSE PutStatusFave(xdb, xdb.made + 1)
       IN IF r.err # "none"
          THEN /\ xcalls' = [xcalls EXCEPT ![c] =
                                Returned(@, "internal error")]
               /\ UNCHANGED xdb
          ELSE /\ xdb' = r.db
               /\ xcalls' = [xcalls EXCEPT ![c] =
                                [@ EXCEPT !.pc = "EnqueueCreateLike",
                                          !.stored = TRUE]]
    /\ UNCHANGED <<xqueue, xres>>

\* FaveRemove deletes the fave getFaveTarget found; an error ends the
\* call before anything is enqueued.
FDeleteStatusFaveByID(c, fail) ==
    /\ xcalls[c].pc = "DeleteStatusFaveByID"
    /\ IF fail
       THEN /\ xcalls' = [xcalls EXCEPT ![c] = Returned(@, "internal error")]
            /\ UNCHANGED xdb
       ELSE /\ xdb' = [xdb EXCEPT !.faves = @ \ {xcalls[c].fave}]
            /\ xcalls' = [xcalls EXCEPT ![c] =
                             [@ EXCEPT !.pc = "EnqueueUndoLike",
                                       !.deleted = TRUE]]
    /\ UNCHANGED <<xqueue, xres>>

\* The EnqueueClientAPI of FaveCreate (Create-Like) and FaveRemove
\* (Undo-Like); GetAPIStatus comes next.
FEnqueueClientAPI(c) ==
    /\ xcalls[c].pc \in {"EnqueueCreateLike", "EnqueueUndoLike"}
    /\ xqueue' = Append(xqueue, IF xcalls[c].pc = "EnqueueCreateLike"
                                THEN MsgCreateLike ELSE MsgUndoLike)
    /\ xcalls' = [xcalls EXCEPT ![c] =
                     [At(@, "GetAPIStatus") EXCEPT !.sent = TRUE]]
    /\ UNCHANGED <<xdb, xres>>

\* The GetAPIStatus that ends FaveCreate and FaveRemove: the call
\* returns the status, or the error of the conversion.
FGetAPIStatus(c, fail) ==
    /\ xcalls[c].pc = "GetAPIStatus"
    /\ xcalls' = [xcalls EXCEPT ![c] =
                     Returned(@, IF fail THEN "internal error" ELSE "status")]
    /\ UNCHANGED <<xdb, xqueue, xres>>

-----------------------------------------------------------------------------
(*                      THE ACCOUNT MUTES FILTER                           *)
(*                  internal/filter/mutes/account.go                       *)

\* The mutes table row of the requester and an account: none (GetMute
\* returns a nil mute and db.ErrNoEntries), or a mute.
NoUserMute == [has |-> FALSE, m |-> [ExpiresAt |-> 0, Notifications |-> FALSE]]
UserMuteRow(mu) == [has |-> TRUE, m |-> mu]

\* gtsmodel.UserMute.Expired: the mute has an expiry and it is not
\* after now.
Expired(mu, now) == mu.ExpiresAt # 0 /\ ~(mu.ExpiresAt > now)

\* What a call of the filter returned: a result and no error, an error,
\* or a panic on a nil pointer.
Notify(ret, allowed) == [ret |-> ret, allowed |-> allowed]

\* Filter.NotifyFromAccount: authed tells that the requester is not
\* nil, row is what the mutes table holds for the requester and the
\* account, dbErr that GetMute fails with another error than
\* db.ErrNoEntries.
NotifyFromAccount(authed, row, now, dbErr) ==
    IF ~authed THEN Notify("ok", TRUE)
    ELSE IF dbErr THEN Notify("error", FALSE)
    ELSE IF ~row.has THEN Notify("panic", FALSE)
    ELSE Notify("ok", row.m.Notifications /\ Expired(row.m, now))

\* ---- the filter as a state machine ----

NoNRes == [op |-> "none", account |-> "none", authed |-> FALSE,
           dbErr |-> FALSE, ret |-> "none", allowed |-> FALSE]

NotifyInit ==
    /\ nmutes = [a \in Accounts |-> NoUserMute]
    /\ nnow = 1
    /\ nres = NoNRes

\* A call of NotifyFromAccount about an account.
NNotifyFromAccount(a, authed, dbErr) ==
    LET r == NotifyFromAccount(authed, nmutes[a], nnow, dbErr)
    IN /\ nres' = [op |-> "NotifyFromAccount", account |-> a,
                   authed |-> authed, dbErr |-> dbErr,
                   ret |-> r.ret, allowed |-> r.allowed]
       /\ UNCHANGED <<nmutes, nnow>>

\* The requester mutes an account, or mutes it anew.
NPutMute(a, mu) ==
    /\ mu.ExpiresAt = 0 \/ mu.ExpiresAt >= nnow
    /\ nmutes[a] # UserMuteRow(mu)
    /\ nmutes' = [nmutes EXCEPT ![a] = UserMuteRow(mu)]
    /\ nres' = [NoNRes EXCEPT !.op = "PutMute", !.account = a]
    /\ UNCHANGED nnow

\* The requester unmutes an account.
NDeleteMute(a) ==
    /\ nmutes[a].has
    /\ nmutes' = [nmutes EXCEPT ![a] = NoUserMute]
    /\ nres' = [NoNRes EXCEPT !.op = "DeleteMute", !.account = a]
    /\ UNCHANGED nnow

NTick ==
    /\ nnow < MaxNow
    /\ nnow' = nnow + 1
    /\ nres' = [NoNRes EXCEPT !.op = "Tick"]
    /\ UNCHANGED nmutes

-----------------------------------------------------------------------------
(*                THE QUEUE CACHE OF THE HTTP CLIENT                       *)
(*                   internal/httpclient/client.go                         *)

\* New: c.queue.SetTTL(100*cfg.Timeout, true) and
\* c.queue.Start(10*cfg.Timeout).  Time is counted in request timeouts.
TTLTimeouts == 100
SweepTimeouts == 10

\* Largest number of calls of Client.Do for the host in progress.
MaxCalls == 105

\* The calls on one channel: waiting in the select, holding a slot
\* taken since the clock last moved (fresh), and holding a slot taken a
\* request timeout ago (due): c.client.Timeout ends the request.
NoCalls == [wait |-> 0, fresh |-> 0, due |-> 0]
Slots(ch) == ch.fresh + ch.due
Calls(ch) == ch.wait + ch.fresh + ch.due

\* The entry of the host has not been fetched for the TTL.
QueueLapsed == qcached /\ qidle > TTLTimeouts

QueueInit ==
    /\ qcached = FALSE
    /\ qidle = 0
    /\ qphase = 0
    /\ qcur = NoCalls
    /\ qold = NoCalls

\* Client.Do up to the select: getQueue fetches the channel of the host
\* from the cache, which renews the entry's expiry, or makes a new
\* channel and caches it.
QGetQueue ==
    /\ Calls(qcur) + Calls(qold) < MaxCalls
    /\ qcached' = TRUE
    /\ qidle' = 0
    /\ qcur' = [qcur EXCEPT !.wait = @ + 1]
    /\ UNCHANGED <<qphase, qold>>

\* case queue <- struct{}{} of a call waiting on the cached channel.
QAcquire ==
    /\ qcur.wait > 0
    /\ Slots(qcur) < hcmax
    /\ qcur' = [qcur EXCEPT !.wait = @ - 1, !.fresh = @ + 1]
    /\ UNCHANGED <<qcached, qidle, qphase, qold>>

\* The same of a call waiting on the channel that was dropped.
QAcquireOld ==
    /\ qold.wait > 0
    /\ Slots(qold) < hcmax
    /\ qold' = [qold EXCEPT !.wait = @ - 1, !.fresh = @ + 1]
    /\ UNCHANGED <<qcached, qidle, qphase, qcur>>

\* case <-req.Context().Done() of a waiting call.
QCancelled(old) ==
    /\ IF old
       THEN qold.wait > 0 /\ qold' = [qold EXCEPT !.wait = @ - 1]
                          /\ qcur' = qcur
       ELSE qcur.wait > 0 /\ qcur' = [qcur EXCEPT !.wait = @ - 1]
                          /\ qold' = qold
    /\ UNCHANGED <<qcached, qidle, qphase>>

\* The rest of Client.Do: the deferred receive frees the slot.
QReturn(old, age) ==
    /\ IF old
       THEN qold[age] > 0 /\ qold' = [qold EXCEPT ![age] = @ - 1]
                          /\ qcur' = qcur
       ELSE qcur[age] > 0 /\ qcur' = [qcur EXCEPT ![age] = @ - 1]
                          /\ qold' = qold
    /\ UNCHANGED <<qcached, qidle, qphase>>

\* A request timeout goes by: no request is older than that, no call
\* waits while its channel has room, and a sweep that is due comes
\* first.  The clock is followed until a queue is dropped under its
\* calls.
QTick ==
    /\ Calls(qold) = 0
    /\ qcur.due = 0
    /\ qcur.wait = 0 \/ Slots(qcur) = hcmax
    /\ ~(qphase = 0 /\ QueueLapsed)
    /\ qcur' = [qcur EXCEPT !.fresh = 0, !.due = qcur.fresh]
    /\ qidle' = IF qcached /\ qidle <= TTLTimeouts THEN qidle + 1 ELSE qidle
    /\ qphase' = (qphase + 1) % SweepTimeouts
    /\ UNCHANGED <<qcached, qold>>

\* The sweep of the cache, every ten request timeouts: the entry of the
\* host is removed when its TTL has lapsed; the calls that fetched the
\* channel keep it.
QSweep ==
    /\ qphase = 0
    /\ QueueLapsed
    /\ qcached' = FALSE
    /\ qidle' = 0
    /\ qold' = qcur
    /\ qcur' = NoCalls
    /\ UNCHANGED qphase

-----------------------------------------------------------------------------
(*                           SPECIFICATIONS                                *)

\* The initial statuses tables of a single dispatch: empty, or holding the
\* status an earlier delivery created.
InitialDBs == {EmptyDB} \cup {[EmptyDB EXCEPT !["s1"] =
                                  [n |-> 1, pending |-> n.pending,
                                   pre |-> n.pre, reply |-> n.reply]] : n \in Notes}

\* Workers dispatching messages about one note concurrently, every
\* collaborator call succeeding.
SpecInit ==
    /\ FediInit /\ PagingInit /\ CacheInit /\ PoolInit /\ LookupInit /\ MuteInit
    /\ ClientInit
    /\ QueueInit
    /\ NotifyInit
    /\ ProcInit

SpecNext ==
    \/ \E w \in Workers, m \in Msgs :
         Dispatch(w, m, {}) /\ UNCHANGED exceptFedi
    \/ \E w \in Workers : Step(w) /\ UNCHANGED exceptFedi

Spec == SpecInit /\ [][SpecNext]_vars

\* One dispatch of any message under any faults, one collaborator call
\* at a time.
HandlerInit ==
    /\ stored \in InitialDBs
    /\ inflight = [w \in Workers |-> Idle]
    /\ effects = <<>>
    /\ returns = <<>>
    /\ PagingInit
    /\ CacheInit
    /\ PoolInit
    /\ LookupInit
    /\ MuteInit
    /\ ClientInit
    /\ QueueInit
    /\ NotifyInit
    /\ ProcInit

HandlerNext ==
    \/ /\ Started = 0
       /\ \E m \in AllMsgs :
             \E F \in FaultSets(Route(m.act, m.obj)) :
                 HandleOnce(m, F) /\ UNCHANGED exceptFedi
    \/ \E w \in Workers : Step(w) /\ UNCHANGED exceptFedi

SpecHandler == HandlerInit /\ [][HandlerNext]_vars

\* A caller paging through a sorted slice.
PagingSpecInit ==
    /\ FediInit /\ PagingStart /\ CacheInit /\ PoolInit /\ LookupInit /\ MuteInit
    /\ ClientInit
    /\ QueueInit
    /\ NotifyInit
    /\ ProcInit

PagingNext ==
    \/ PageStep /\ UNCHANGED exceptPaging
    \/ RangeStep /\ UNCHANGED exceptPaging
    \/ AttachmentsStep /\ UNCHANGED exceptPaging

SpecPaging == PagingSpecInit /\ [][PagingNext]_vars

\* One call of a paging function on any page or pager and sorted slice.
CallSpecInit ==
    /\ FediInit /\ CallStart /\ CacheInit /\ PoolInit /\ LookupInit /\ MuteInit
    /\ ClientInit
    /\ QueueInit
    /\ NotifyInit
    /\ ProcInit

PagingCalls ==
    \/ CallPageAsc /\ UNCHANGED exceptPaging
    \/ CallPageDesc /\ UNCHANGED exceptPaging
    \/ CallPagerPageAsc /\ UNCHANGED exceptPaging
    \/ CallPagerPageDesc /\ UNCHANGED exceptPaging
    \/ \E v \in 0..MaxKey : CallNext(v) /\ UNCHANGED exceptPaging
    \/ \E v \in 0..MaxKey : CallPrev(v) /\ UNCHANGED exceptPaging
    \/ \E v \in 0..MaxKey : CallPagerNext(v) /\ UNCHANGED exceptPaging
    \/ \E v \in 0..MaxKey : CallPagerPrev(v) /\ UNCHANGED exceptPaging
    \/ CallNew /\ UNCHANGED exceptPaging
    \/ CallTimeline /\ UNCHANGED exceptPaging
    \/ CallScan /\ UNCHANGED exceptPaging

SpecCall == CallSpecInit /\ [][PagingCalls]_vars

\* Callers of one entity cache, the clock and the sweep.
CacheSpecInit ==
    /\ FediInit
    /\ PagingInit
    /\ PoolInit
    /\ LookupInit
    /\ MuteInit
    /\ ClientInit
    /\ QueueInit
    /\ NotifyInit
    /\ ProcInit
    /\ ckind \in Kinds
    /\ centries = EmptyCache
    /\ cheld = NoHeld
    /\ cnow = 0
    /\ cstore = EmptyStore
    /\ cres = NoRes
    /\ clast = [k \in Keys |-> "none"]
    /\ crace = NoRace
    /\ cttl = DefaultTTL

CacheNext ==
    \/ \E k \in Keys, t \in Texts, a \in {{}, Pointers(ckind)} :
          CSet(Val(k, t, a)) /\ UNCHANGED exceptCache
    \/ \E k \in Keys : CGet(k) /\ UNCHANGED exceptCache
    \/ \E t \in Texts : CMutate(t) /\ UNCHANGED exceptCache
    \/ \E k \in Keys : CEvict(k) /\ UNCHANGED exceptCache
    \/ CTick /\ UNCHANGED exceptCache
    \/ CSweep /\ UNCHANGED exceptCache

SpecCache == CacheSpecInit /\ [][CacheNext]_vars

\* The block cache over the blocks table: a caller of GetBlock, one of
\* PutBlock and one of DeleteBlockByID, evictions and the clock.
LoadSpecInit ==
    /\ FediInit
    /\ PagingInit
    /\ PoolInit
    /\ LookupInit
    /\ MuteInit
    /\ ClientInit
    /\ QueueInit
    /\ NotifyInit
    /\ ProcInit
    /\ ckind = "block"
    /\ centries = EmptyCache
    /\ cheld = NoHeld
    /\ cnow = 0
    /\ cstore = EmptyStore
    /\ cres = NoRes
    /\ clast = [k \in Keys |-> "none"]
    /\ crace = NoRace
    /\ cttl = DefaultTTL

LoadNext ==
    \/ \E g \in {"g1"}, k \in Keys, bare \in BOOLEAN :
          LGetBlock(g, k, bare) /\ UNCHANGED exceptRace
    \/ \E g \in {"g1"} : LGetBlockLoader(g) /\ UNCHANGED exceptRace
    \/ \E g \in {"g1"} : LGetBlockStore(g) /\ UNCHANGED exceptRace
    \/ \E g \in {"g1"}, f \in BOOLEAN :
          LGetBlockAccount(g, f) /\ UNCHANGED exceptRace
    \/ \E g \in {"g1"}, f \in BOOLEAN :
          LGetBlockTargetAccount(g, f) /\ UNCHANGED exceptRace
    \/ \E k \in Keys, f \in BOOLEAN :
          LPutBlock(Val(k, "a", {}), f) /\ UNCHANGED exceptRace
    \/ LPutBlockCache /\ UNCHANGED exceptRace
    \/ \E k \in Keys, f \in BOOLEAN :
          LDeleteBlockByID(k, f) /\ UNCHANGED exceptRace
    \/ LDeleteBlockInvalidate /\ UNCHANGED exceptRace
    \/ \E k \in Keys : LGet(k) /\ UNCHANGED exceptRace
    \/ \E k \in Keys : CEvict(k) /\ UNCHANGED exceptCache
    \/ CTick /\ UNCHANGED exceptCache

SpecLoad == LoadSpecInit /\ [][LoadNext]_vars

\* Goroutines in GetBlock, PutBlock and DeleteBlockByID over the blocks
\* table, the database answering every query.
RaceSpecInit ==
    /\ LoadSpecInit

RaceNext ==
    \/ \E g \in Getters, k \in Keys :
          LGetBlock(g, k, TRUE) /\ UNCHANGED exceptRace
    \/ \E g \in Getters : LGetBlockLoader(g) /\ UNCHANGED exceptRace
    \/ \E g \in Getters : LGetBlockStore(g) /\ UNCHANGED exceptRace
    \/ \E k \in Keys, t \in Texts :
          LPutBlock(Val(k, t, {}), FALSE) /\ UNCHANGED exceptRace
    \/ LPutBlockCache /\ UNCHANGED exceptRace
    \/ \E k \in Keys : LDeleteBlockByID(k, FALSE) /\ UNCHANGED exceptRace
    \/ LDeleteBlockInvalidate /\ UNCHANGED exceptRace

SpecRace == RaceSpecInit /\ [][RaceNext]_vars

\* The mentions cache over the mentions table.
MentionsSpecInit ==
    /\ FediInit /\ PagingInit /\ PoolInit /\ LookupInit /\ MuteInit
    /\ ClientInit
    /\ QueueInit
    /\ NotifyInit
    /\ ProcInit
    /\ ckind = "mention"
    /\ centries = EmptyCache
    /\ cheld = NoHeld
    /\ cnow = 0
    /\ cstore = EmptyStore
    /\ cres = NoRes
    /\ clast = [k \in Keys |-> "none"]
    /\ crace = NoRace
    /\ cttl = DefaultTTL

MentionsNext ==
    \/ \E k \in Keys, t \in Texts, a \in {{}, Pointers("mention")} :
          GMInsert(Val(k, t, a)) /\ UNCHANGED exceptCache
    \/ \E k \in Keys : GMGetMention(k) /\ UNCHANGED exceptCache
    \/ \E ids \in IDLists : GMGetMentions(ids) /\ UNCHANGED exceptCache
    \/ CTick /\ UNCHANGED exceptCache

SpecMentions == MentionsSpecInit /\ [][MentionsNext]_vars

\* Callers of Set, Put and SetTTL on one cache, and the clock.
TTLSpecInit == LoadSpecInit

TTLNext ==
    \/ \E ttl \in TTLs, update \in BOOLEAN :
          TSetTTL(ttl, update) /\ UNCHANGED exceptTTL
    \/ \E k \in Keys, t \in Texts : TSet(Val(k, t, {})) /\ UNCHANGED exceptTTL
    \/ \E k \in Keys, t \in Texts : TPut(Val(k, t, {})) /\ UNCHANGED exceptTTL
    \/ CTick /\ UNCHANGED exceptCache

SpecTTL == TTLSpecInit /\ [][TTLNext]_vars

\* The worker pool: set up, producers queueing, workers running tasks.
PoolSpecInit ==
    /\ FediInit /\ PagingInit /\ CacheInit /\ PoolInit /\ LookupInit /\ MuteInit
    /\ ClientInit
    /\ QueueInit
    /\ NotifyInit
    /\ ProcInit

PoolNext ==
    \/ SetProcessor /\ UNCHANGED exceptPool
    \/ Start /\ UNCHANGED exceptPool
    \/ \E drops \in BOOLEAN : Stop(drops) /\ UNCHANGED exceptPool
    \/ \E out \in Outcomes : Queue(out) /\ UNCHANGED exceptPool
    \/ \E w \in Workers : Take(w) /\ UNCHANGED exceptPool
    \/ \E w \in Workers, rec \in BOOLEAN :
          Run(w, rec) /\ UNCHANGED exceptPool

SpecPool == PoolSpecInit /\ [][PoolNext]_vars

\* The same with the scheduler's fairness: a worker that can take or run
\* a task eventually does.
SpecPoolFair ==
    /\ PoolSpecInit
    /\ [][PoolNext]_vars
    /\ \A w \in Workers :
          /\ WF_poolVars(Take(w))
          /\ WF_poolVars(\E rec \in BOOLEAN : Run(w, rec))

\* Callers of the status (or account) cache, the clock and the sweep.
LookupSpecInit ==
    /\ FediInit /\ PagingInit /\ CacheInit /\ PoolInit /\ LookupInit /\ MuteInit
    /\ ClientInit
    /\ QueueInit
    /\ NotifyInit
    /\ ProcInit

LookupNext ==
    \/ \E k \in Keys, u \in URIs, x \in URLs \cup {""} :
          IdxSet(Item(k, u, x)) /\ UNCHANGED exceptLookup
    \/ \E k \in Keys : IdxGetByID(k) /\ UNCHANGED exceptLookup
    \/ \E u \in URIs : IdxGetByURI(u) /\ UNCHANGED exceptLookup
    \/ \E x \in URLs : IdxGetByURL(x) /\ UNCHANGED exceptLookup
    \/ \E k \in Keys : IdxEvict(k) /\ UNCHANGED exceptLookup
    \/ IdxSweep /\ UNCHANGED exceptLookup
    \/ IdxTick /\ UNCHANGED exceptLookup

SpecLookup == LookupSpecInit /\ [][LookupNext]_vars

\* Calls of the mutes filter about one status by one requester, while
\* mutes are added and time goes by.
MutesSpecInit ==
    /\ FediInit /\ PagingInit /\ CacheInit /\ PoolInit /\ LookupInit
    /\ ClientInit
    /\ QueueInit
    /\ NotifyInit
    /\ ProcInit
    /\ mthread \in Threads
    /\ mmutes = NoMutes
    /\ mcached = NoCached
    /\ mnow = 1
    /\ mres = NoMRes
    /\ mcall = [c \in MuteCallers |-> IdleMute]

MutesNext ==
    \/ \E c \in MuteCallers, a \in BOOLEAN :
          MStatusMuted(c, a) /\ UNCHANGED exceptMutes
    \/ \E c \in MuteCallers, a \in BOOLEAN :
          MStatusNotificationsMuted(c, a) /\ UNCHANGED exceptMutes
    \/ \E c \in MuteCallers : MLoadOne(c) /\ UNCHANGED exceptMutes
    \/ \E c \in MuteCallers, fail \in BOOLEAN :
          MGetStatusThreadMute(c, fail) /\ UNCHANGED exceptMutes
    \/ \E c \in MuteCallers, fail \in BOOLEAN :
          MGetMute(c, fail) /\ UNCHANGED exceptMutes
    \/ \E c \in MuteCallers : MLoadStore(c) /\ UNCHANGED exceptMutes
    \/ \E a \in Related, mu \in UserMutes :
          MPutMute(a, mu) /\ UNCHANGED exceptMutes
    \/ MTick /\ UNCHANGED exceptMutes

SpecMutes == MutesSpecInit /\ [][MutesNext]_vars

\* Overlapping calls of BlockCreate and BlockRemove by one account,
\* whatever follows and follow requests there are between it and the
\* target.
BlockSpecInit ==
    /\ FediInit /\ PagingInit /\ CacheInit /\ PoolInit /\ LookupInit /\ MuteInit
    /\ ClientInit
    /\ QueueInit
    /\ NotifyInit
    /\ xdb \in {[EmptyTables EXCEPT !.follows = f, !.followReqs = fr] :
                   f \in SUBSET {<<"a1", "a2">>, <<"a2", "a1">>},
                   fr \in SUBSET {<<"a1", "a2">>, <<"a2", "a1">>}}
    /\ xqueue = <<>>
    /\ xcalls = [c \in Callers |-> IdleFave]
    /\ xres = NoXRes

BlockCallers == {"c1", "c2"}

BlockNext ==
    \/ \E c \in BlockCallers, tgt \in Targets, fail \in BOOLEAN :
          XBlockCreate(c, tgt, fail) /\ UNCHANGED exceptProc
    \/ \E c \in BlockCallers, tgt \in Targets, fail \in BOOLEAN :
          XBlockRemove(c, tgt, fail) /\ UNCHANGED exceptProc
    \/ \E c \in BlockCallers, fail \in BOOLEAN :
          XBlockStep(c, fail) /\ UNCHANGED exceptProc

SpecBlock == BlockSpecInit /\ [][BlockNext]_vars

\* Concurrent calls of FaveCreate and FaveRemove by one account on one
\* status.
FaveSpecInit ==
    /\ FediInit /\ PagingInit /\ CacheInit /\ PoolInit /\ LookupInit /\ MuteInit
    /\ ClientInit
    /\ QueueInit
    /\ NotifyInit
    /\ xdb \in {[EmptyTables EXCEPT !.likeable = l] : l \in BOOLEAN}
    /\ xqueue = <<>>
    /\ xcalls = [c \in Callers |-> IdleFave]
    /\ xres = NoXRes

FaveNext ==
    \/ \E c \in Callers, op \in {"FaveCreate", "FaveRemove"}, fail \in BOOLEAN :
          FGetVisibleTargetStatus(c, op, fail) /\ UNCHANGED exceptProc
    \/ \E c \in Callers, fail \in BOOLEAN :
          FGetStatusFave(c, fail) /\ UNCHANGED exceptProc
    \/ \E c \in Callers, fail \in BOOLEAN :
          FPutStatusFave(c, fail) /\ UNCHANGED exceptProc
    \/ \E c \in Callers, fail \in BOOLEAN :
          FDeleteStatusFaveByID(c, fail) /\ UNCHANGED exceptProc
    \/ \E c \in Callers : FEnqueueClientAPI(c) /\ UNCHANGED exceptProc
    \/ \E c \in Callers, fail \in BOOLEAN :
          FGetAPIStatus(c, fail) /\ UNCHANGED exceptProc

SpecFave == FaveSpecInit /\ [][FaveNext]_vars

\* Calls of NotifyFromAccount while the requester mutes and unmutes
\* accounts and time goes by.
NotifySpecInit ==
    /\ FediInit /\ PagingInit /\ CacheInit /\ PoolInit /\ LookupInit /\ MuteInit
    /\ ClientInit
    /\ QueueInit
    /\ ProcInit
    /\ nmutes = [a \in Accounts |-> NoUserMute]
    /\ nnow = 1
    /\ nres = NoNRes

NotifyNext ==
    \/ \E a \in Accounts, authed \in BOOLEAN, dbErr \in BOOLEAN :
          NNotifyFromAccount(a, authed, dbErr) /\ UNCHANGED exceptNotify
    \/ \E a \in Accounts, mu \in UserMutes :
          NPutMute(a, mu) /\ UNCHANGED exceptNotify
    \/ \E a \in Accounts : NDeleteMute(a) /\ UNCHANGED exceptNotify
    \/ NTick /\ UNCHANGED exceptNotify

SpecNotify == NotifySpecInit /\ [][NotifyNext]_vars

\* Any number of calls of Client.Do for one host on a client of
\* MaxOpenConns 1, the clock and the sweep of the queue cache.
QueueSpecInit ==
    /\ FediInit /\ PagingInit /\ CacheInit /\ PoolInit /\ LookupInit /\ MuteInit
    /\ ClientInit
    /\ ProcInit
    /\ NotifyInit
    /\ QueueInit

QueueNext ==
    \/ QGetQueue /\ UNCHANGED exceptQueue
    \/ QAcquire /\ UNCHANGED exceptQueue
    \/ QAcquireOld /\ UNCHANGED exceptQueue
    \/ \E old \in BOOLEAN : QCancelled(old) /\ UNCHANGED exceptQueue
    \/ \E old \in BOOLEAN, age \in {"fresh", "due"} :
          QReturn(old, age) /\ UNCHANGED exceptQueue
    \/ QTick /\ UNCHANGED exceptQueue
    \/ QSweep /\ UNCHANGED exceptQueue

SpecQueue == QueueSpecInit /\ [][QueueNext]_vars

-----------------------------------------------------------------------------
(*                     PROPERTIES OF THE DISPATCHER                        *)

\* Number of calls of operation e about id made by handler h.
CountEff(h, e, id) ==
    Cardinality({i \in 1..Len(effects) :
        effects[i].h = h /\ effects[i].e = e /\ effects[i].id = id})

\* The finished dispatches that went to handler h.
ReturnsOf(h) == {i \in 1..Len(returns) : returns[i].called = <<h>>}

\* The handlers that began: those that returned and those in progress.
Begun(h) ==
    {returns[i].m : i \in ReturnsOf(h)}
    \cup {inflight[w].m : w \in {v \in Workers :
              inflight[v].busy /\ inflight[v].called = <<h>>}}

NoDeleteSoFar ==
    /\ \A i \in 1..Len(returns) : returns[i].m.act # "Delete"
    /\ \A w \in Workers : inflight[w].busy => inflight[w].m.act # "Delete"

\* The side effects CreateStatus owes a new status with attributes st.
OwedBy(st) ==
    IF st.pending /\ ~st.pre THEN {"notifyPendingReply"}
    ELSE {"incrementStatusesCount", "timelineAndNotifyStatus"}

\* C1: delivering the same Create-Note twice, one after the other or
\* concurrently, stores one status, returns success to both deliveries
\* and performs the counter increment and the timeline insertion /
\* notification fan-out once: at most once in every state, and exactly
\* once when every delivery has finished and none met a failing
\* collaborator.
C1_DuplicateCreateOnce ==
    NoDeleteSoFar =>
        /\ stored["s1"].n <= 1
        /\ \A i \in ReturnsOf("CreateStatus") :
               returns[i].F = {} => returns[i].ret = "nil"
        /\ \A e \in {"incrementStatusesCount", "timelineAndNotifyStatus",
                     "notifyPendingReply"} :
               CountEff("CreateStatus", e, "s1") <= 1
        /\ ( /\ ReturnsOf("CreateStatus") # {}
             /\ \A w \in Workers : ~inflight[w].busy
             /\ \A i \in ReturnsOf("CreateStatus") : returns[i].F = {} )
           => /\ stored["s1"].n = 1
              /\ \A e \in OwedBy(stored["s1"]) :
                     CountEff("CreateStatus", e, "s1") = 1

\* Two deliveries of the Create-Note overlapped (both dereferenced before
\* either went on), both returned success and the counter moved once.
C1_Witness ==
    /\ Len(returns) = 2
    /\ \A i \in 1..2 : returns[i].called = <<"CreateStatus">>
                       /\ returns[i].ret = "nil" /\ returns[i].F = {}
    /\ Len(effects) >= 2
    /\ \A i \in 1..2 : effects[i].e \in {"RefreshStatus", "GetStatusByURI"}
    /\ CountEff("CreateStatus", "incrementStatusesCount", "s1") = 1
    /\ CountEff("CreateStatus", "timelineAndNotifyStatus", "s1") = 1

\* The calls through which a status becomes visible.
VisibleEffects ==
    {"incrementStatusesCount", "timelineAndNotifyStatus",
     "invalidateStatusFromTimelines"}

\* C2: a Create-Note for a reply that is pending approval and not
\* pre-approved only sends the pending-reply notification: CreateStatus
\* increments no counter, inserts into no timeline and invalidates no
\* ancestor, and those happen for the status only in the AcceptReply of a
\* later Accept.
C2_PendingReplyDeferred ==
    \A c \in Begun("CreateStatus") :
        (c.pending /\ ~c.pre) =>
            /\ \A i \in 1..Len(effects) :
                   effects[i].h = "CreateStatus" =>
                       effects[i].e \notin VisibleEffects
            /\ \A i \in 1..Len(effects) :
                   (effects[i].e \in VisibleEffects
                    /\ effects[i].h \in {"CreateStatus", "AcceptReply"}) =>
                       /\ effects[i].h = "AcceptReply"
                       /\ Begun("AcceptReply") # {}

\* A pending reply was created and notified, and nothing else happened.
C2_Witness ==
    /\ Len(returns) = 1
    /\ returns[1].called = <<"CreateStatus">>
    /\ returns[1].m.pending /\ ~returns[1].m.pre
    /\ returns[1].ret = "nil"
    /\ stored["s1"].n = 1 /\ stored["s1"].pending /\ ~stored["s1"].pre
    /\ CountEff("CreateStatus", "notifyPendingReply", "s1") = 1
    /\ Len(effects) = 2

\* The calls a Create handler makes once the interaction stands.
PostApprovalEffects ==
    {"incrementStatusesCount", "timelineAndNotifyStatus", "notifyFave",
     "notifyAnnounce", "invalidateStatusFromTimelines"}

ApproveOf(h) ==
    CASE h = "CreateStatus" -> "approveReply"
      [] h = "CreateLike" -> "approveFave"
      [] h = "CreateAnnounce" -> "approveAnnounce"

\* C3: in a Create of a reply, fave or boost that is pending approval and
\* pre-approved, the approval is written first, the Accept is sent next,
\* and the counter increment, timelining and notifications come only
\* after both succeeded.
C3_ApproveAcceptThenEffects ==
    \A r \in 1..Len(returns) :
        LET h == returns[r].called[1] IN
        ( /\ Len(returns[r].called) = 1
          /\ h \in {"CreateStatus", "CreateLike", "CreateAnnounce"}
          /\ returns[r].m.pending /\ returns[r].m.pre ) =>
            /\ \A i \in 1..Len(effects) :
                   effects[i].e = "AcceptInteraction" =>
                       \E j \in 1..(i - 1) :
                           effects[j].e = ApproveOf(h) /\ effects[j].ok
            /\ \A i \in 1..Len(effects) :
                   effects[i].e \in PostApprovalEffects =>
                       \E j \in 1..(i - 1), k \in 1..(i - 1) :
                           /\ j < k
                           /\ effects[j].e = ApproveOf(h) /\ effects[j].ok
                           /\ effects[k].e = "AcceptInteraction" /\ effects[k].ok

\* A pre-approved boost went through: approval, Accept, then the fan-out.
C3_Witness ==
    /\ Len(returns) = 1
    /\ returns[1].called = <<"CreateAnnounce">>
    /\ returns[1].m.pending /\ returns[1].m.pre
    /\ returns[1].ret = "nil"
    /\ \E i \in 1..Len(effects) : effects[i].e = "notifyAnnounce"
    /\ \E i \in 1..Len(effects) : effects[i].e = "AcceptInteraction"

\* The calls of the log other than log.Errorf, in order.
Attempts == SelectSeq(effects, LAMBDA x : x.e # "log.Errorf")

\* C4: CreateBlock attempts every cleanup step, in order, whatever fails:
\* each failure is logged right after the failed step, nothing aborts
\* and the handler returns nil.
C4_BlockCleanupAllSteps ==
    \A r \in 1..Len(returns) :
        ( /\ returns[r].called = <<"CreateBlock">>
          /\ returns[r].m.model = "Block" ) =>
            /\ returns[r].ret = "nil"
            /\ Len(Attempts) = Len(BlockSteps)
            /\ \A i \in 1..Len(BlockSteps) :
                   /\ Attempts[i].e = BlockSteps[i]
                   /\ Attempts[i].ok = (BlockSteps[i] \notin returns[r].F)
            /\ \A i \in 1..Len(effects) :
                   (effects[i].e # "log.Errorf" /\ ~effects[i].ok) =>
                       /\ i < Len(effects)
                       /\ effects[i + 1].e = "log.Errorf"
                       /\ effects[i + 1].id = effects[i].e
            /\ Len(effects) = Len(BlockSteps) + Cardinality(returns[r].F)

\* A block whose first unfollow failed: the later steps still ran.
C4_Witness ==
    /\ Len(returns) = 1
    /\ returns[1].called = <<"CreateBlock">>
    /\ returns[1].m.model = "Block"
    /\ "DeleteFollow:fwd" \in returns[1].F
    /\ \E i \in 1..Len(effects) :
           effects[i].e = "DeleteFollowRequest:rev" /\ effects[i].ok

\* The routing table of the dispatcher, as the specification gives it.
RoutingTable ==
    {<<"Create", o>> : o \in {"Note", "Follow", "Like", "Announce", "Block",
                              "Flag", "Question"}}
    \cup {<<"Update", o>> : o \in {"Note", "Person"}}
    \cup {<<"Accept", o>> : o \in {"Follow", "Like", "Note", "Announce"}}
    \cup {<<"Delete", o>> : o \in {"Note", "Person"}}
    \cup {<<"Move", "Person">>}

\* C10: ProcessFromFediAPI invokes exactly one handler when the
\* (activity, object) pair of the message is in the routing table;
\* otherwise it returns the "unhandled" error, invokes no handler and
\* changes no state.
C10_RouteExactlyOne ==
    [][ Len(returns') > Len(returns) =>
          LET r == returns'[Len(returns')] IN
          IF <<r.m.act, r.m.obj>> \in RoutingTable
          THEN Len(r.called) = 1 /\ r.called[1] \in Handlers
               /\ r.ret # "error:unhandled"
          ELSE /\ r.ret = "error:unhandled"
               /\ r.called = <<>>
               /\ stored' = stored
               /\ effects' = effects ]_vars

\* An unroutable message met a table holding a status and was refused.
C10_Witness ==
    /\ Len(returns) = 1
    /\ <<returns[1].m.act, returns[1].m.obj>> \notin RoutingTable
    /\ returns[1].ret = "error:unhandled"
    /\ stored["s1"].n = 1
    /\ effects = <<>>


\* The finished dispatch r went to exactly the handler h.
WentTo(r, h) == returns[r].called = <<h>>

\* Number of calls of operation e, about whatever.
CountCall(e) == Cardinality({i \in 1..Len(effects) : effects[i].e = e})

\* C11: a Create-Note is processed only if exactly one of its parsed
\* object and its IRI is set: with neither set, or with both set, the
\* handler returns an error and has called nothing: no status is resolved
\* and no side effect is performed.
C11_ExactlyOneOfObjectAndIRI ==
    \A r \in 1..Len(returns) :
        ( /\ WentTo(r, "CreateStatus")
          /\ (returns[r].m.apobj # "nil") = returns[r].m.iri ) =>
            /\ returns[r].ret = "error"
            /\ effects = <<>>

\* The calls that purge the queues in each Delete handler.
PurgeCalls(h) ==
    IF h = "DeleteStatus"
    THEN {"Delivery.Queue.Delete:ObjectID", "Delivery.Queue.Delete:TargetID",
          "Client.Queue.Delete:TargetURI", "Federator.Queue.Delete:TargetURI"}
    ELSE {"Delivery.Queue.Delete:ObjectID", "Delivery.Queue.Delete:TargetID",
          "Client.Queue.Delete:Target.ID", "Client.Queue.Delete:TargetURI",
          "Federator.Queue.Delete:Requesting.ID",
          "Federator.Queue.Delete:TargetURI"}

\* The call that deletes the entity in each Delete handler.
DeletionCall(h) == IF h = "DeleteStatus" THEN "wipeStatus" ELSE "account.Delete"

\* C12: in DeleteStatus and DeleteAccount every purge of the three queues
\* (outbound delivery, inbound client, inbound federation) of messages
\* about the deleted entity has been made before the deletion of the
\* entity is attempted, and none comes after it; a handler that got past
\* its checks does attempt the deletion.
C12_PurgeBeforeDeletion ==
    \A r \in 1..Len(returns) : \A h \in {"DeleteStatus", "DeleteAccount"} :
        WentTo(r, h) =>
            /\ \A i \in 1..Len(effects) :
                   effects[i].e = DeletionCall(h) =>
                       /\ \A q \in PurgeCalls(h) :
                              \E j \in 1..(i - 1) :
                                  /\ effects[j].e = q
                                  /\ effects[j].id = returns[r].m.id
                                  /\ effects[j].ok
                       /\ \A j \in (i + 1)..Len(effects) :
                              effects[j].e \notin PurgeCalls(h)
            /\ returns[r].ret = "nil" => CountCall(DeletionCall(h)) = 1

\* A status was wiped, after the four purges of the queues.
C12_Witness ==
    /\ Len(returns) = 1
    /\ WentTo(1, "DeleteStatus")
    /\ returns[1].ret = "nil"
    /\ stored["s1"].n = 0
    /\ \E i \in 5..Len(effects) : effects[i].e = "wipeStatus" /\ effects[i].ok

\* The core mutations of the handlers.
CoreMutations ==
    {"AcceptFollowRequest", "approveReply", "approveFave", "approveAnnounce",
     "PutPollVote", "wipeStatus"}

\* C13: when the core mutation of a handler fails (accepting the follow
\* request, writing the interaction approval, storing the poll vote,
\* wiping the status) the handler returns an error and the failed call
\* is the last thing it did.
C13_CoreMutationFailureAborts ==
    \A r \in 1..Len(returns) : \A i \in 1..Len(effects) :
        (effects[i].e \in CoreMutations /\ ~effects[i].ok) =>
            /\ returns[r].ret = "error"
            /\ i = Len(effects)

\* The calls through which a Create handler resolves its object.
ResolveCalls == {"RefreshStatus", "GetStatusByURI", "EnrichAnnounce"}

\* C14: when the federation collaborator answers the resolution of the
\* object of Create-Note or Create-Announce with an "unretrievable" or
\* "not permitted" error, the handler returns nil and has done nothing
\* but the failed call.
C14_UnretrievableIsSkip ==
    \A r \in 1..Len(returns) :
        ( /\ (WentTo(r, "CreateStatus") \/ WentTo(r, "CreateAnnounce"))
          /\ DerefErr(returns[r].F) \in {"unretrievable", "notpermitted"}
          /\ \E i \in 1..Len(effects) : effects[i].e \in ResolveCalls ) =>
            /\ returns[r].ret = "nil"
            /\ Len(effects) = 1
            /\ ~effects[1].ok

\* C29: Update Status never dereferences a nil status: when RefreshStatus
\* fails the handler finishes without a panic and without invalidating,
\* notifying or streaming for the status it did not get.
C29_UpdateStatusNeverDerefsNil ==
    \A r \in 1..Len(returns) :
        ( /\ WentTo(r, "UpdateStatus")
          /\ \E i \in 1..Len(effects) :
                 effects[i].e = "RefreshStatus" /\ ~effects[i].ok ) =>
            /\ returns[r].ret # "panic"
            /\ \A i \in 1..Len(effects) :
                   effects[i].e \notin {"invalidateStatusFromTimelines",
                                        "notifyPollClose", "timelineStatusUpdate"}

\* The dispatch did not stop early: the interaction is not waiting for an
\* approval and the boosted status was not skipped.
Stands(r) ==
    /\ ~(returns[r].m.pending /\ ~returns[r].m.pre)
    /\ DerefErr(returns[r].F) \notin {"unretrievable", "notpermitted"}

\* C15 (as the code has it): a Create-Like or Create-Announce that
\* returns success without having stopped early (at the notification of
\* a pending interaction or at the skip of an unretrievable boosted
\* status) has invalidated the target status in the timelines, once, as
\* its last call; one that stopped early has not invalidated anything.
C15_InvalidateWhenInteractionStands ==
    \A r \in 1..Len(returns) : \A h \in {"CreateLike", "CreateAnnounce"} :
        (WentTo(r, h) /\ returns[r].ret = "nil") =>
            IF Stands(r)
            THEN /\ effects # <<>>
                 /\ effects[Len(effects)] =
                        Eff(h, "invalidateStatusFromTimelines", ParentID, TRUE)
                 /\ CountCall("invalidateStatusFromTimelines") = 1
            ELSE CountCall("invalidateStatusFromTimelines") = 0

\* A fave whose notification failed: the timelines were invalidated all
\* the same.
C15_Witness ==
    /\ Len(returns) = 1
    /\ WentTo(1, "CreateLike")
    /\ returns[1].ret = "nil"
    /\ returns[1].F = {"notifyFave"}
    /\ effects[Len(effects)].e = "invalidateStatusFromTimelines"

\* C15 (as the specification words it): every Create-Like or
\* Create-Announce that returns success has invalidated the target
\* status in the timelines.
C15_EverySuccessInvalidates ==
    \A r \in 1..Len(returns) : \A h \in {"CreateLike", "CreateAnnounce"} :
        (WentTo(r, h) /\ returns[r].ret = "nil") =>
            \E i \in 1..Len(effects) :
                /\ effects[i].e = "invalidateStatusFromTimelines"
                /\ effects[i].id = ParentID

\* The calls of CreateFollowReq that belong to an accepted follow.
AcceptedFollowCalls ==
    {"AcceptFollowRequest", "incrementFollowersCount",
     "incrementFollowingCount", "federate.AcceptFollow", "notifyFollow"}

\* C16: CreateFollowReq for a locked target notifies the target of the
\* request and bumps its follow-request count, and neither accepts the
\* request nor sends an Accept.  For an unlocked target it accepts the
\* request in storage and then, once each, increments the followers
\* count of the target, increments the following count of the requester
\* and sends the Accept; when accepting fails it returns the error and
\* does none of these.
C16_FollowRequestLockedOrAccepted ==
    \A r \in 1..Len(returns) :
        LET m == returns[r].m
            F == returns[r].F
            h == "CreateFollowReq"
        IN ( /\ WentTo(r, h)
             /\ m.model = "FollowRequest"
             /\ "PopulateFollowRequest" \notin F ) =>
            IF m.locked
            THEN /\ returns[r].ret = "nil"
                 /\ CountEff(h, "notifyFollowRequest", m.id) = 1
                 /\ CountEff(h, "incrementFollowRequestsCount", "receiving") = 1
                 /\ \A e \in AcceptedFollowCalls : CountCall(e) = 0
            ELSE IF "AcceptFollowRequest" \in F
            THEN /\ returns[r].ret = "error"
                 /\ \A e \in AcceptedFollowCalls \ {"AcceptFollowRequest"} :
                        CountCall(e) = 0
            ELSE /\ returns[r].ret = "nil"
                 /\ effects[2] = Eff(h, "AcceptFollowRequest", m.id, TRUE)
                 /\ CountCall("AcceptFollowRequest") = 1
                 /\ CountEff(h, "incrementFollowersCount", "receiving") = 1
                 /\ CountCall("incrementFollowersCount") = 1
                 /\ CountEff(h, "incrementFollowingCount", "requesting") = 1
                 /\ CountCall("incrementFollowingCount") = 1
                 /\ CountEff(h, "federate.AcceptFollow", m.id) = 1
                 /\ CountCall("notifyFollowRequest") = 0
                 /\ CountCall("incrementFollowRequestsCount") = 0
                 /\ \A i \in 1..Len(effects) :
                        (effects[i].e \in {"incrementFollowersCount",
                                           "incrementFollowingCount",
                                           "federate.AcceptFollow"}
                         /\ effects[i].e \notin F) => effects[i].ok

\* A follow request to an unlocked account was accepted: both counters
\* moved and the Accept went out.
C16_Witness ==
    /\ Len(returns) = 1
    /\ WentTo(1, "CreateFollowReq")
    /\ ~returns[1].m.locked
    /\ returns[1].F = {}
    /\ returns[1].ret = "nil"
    /\ Len(effects) = 6
    /\ \A i \in 1..6 : effects[i].ok


-----------------------------------------------------------------------------
(*                       PROPERTIES OF CURSOR PAGING                       *)

\* s is a prefix of t.
IsPrefix(s, t) == Len(s) <= Len(t) /\ s = SubSeq(t, 1, Len(s))

\* C5 (as the code has it): over an ascending slice of unique non-zero
\* keys, from a page with no boundary value and a limit of at least 1,
\* paging with PageAsc and continuing with Prev of the last element
\* returned yields the keys in order without gap or repeat, and stops,
\* with every key returned, when Prev is nil: after at most one call per
\* key and the one that returns the empty page.
C5_AscPrevEnumerates ==
    pgMode = "AscPrev" =>
        /\ IsPrefix(pgOut, pgIn)
        /\ pgDone => pgOut = pgIn
        /\ pgCalls <= Len(pgIn) + 1
        /\ (~pgDone /\ pgCalls > 0) => ~pgPage.nil /\ pgPage.Min.Value = pgOut[Len(pgOut)]

\* A slice of three keys was enumerated in more than two pages.
C5_Witness ==
    /\ pgMode = "AscPrev"
    /\ pgDone
    /\ Len(pgIn) >= 3
    /\ pgCalls >= 3
    /\ pgOut = pgIn

\* C5 (as the specification words it): the same iteration continued with
\* Next of the last element returned ends with every key returned once.
C5_AscNextEnumerates ==
    (pgMode = "AscNext" /\ pgDone) => pgOut = pgIn

\* The iteration has returned the first keys of the slice (the first rows
\* of the table) in order, with no gap and no repeat, in no more calls
\* than keys returned and one; it is over only with every key returned,
\* and goes on below the last key returned.
DescOnTrack ==
    /\ IsPrefix(pgOut, pgIn)
    /\ pgCalls <= Len(pgOut) + 1
    /\ pgDone => pgOut = pgIn
    /\ ~pgDone => /\ ~pgPage.nil
                  /\ pgCalls <= Len(pgOut)
                  /\ pgPage.Max.Value = IF pgOut = <<>> THEN 0 ELSE pgOut[Len(pgOut)]

\* C31: iterating PageDesc on a descending slice, from a page that has a
\* limit and no minimum, with Next of the last element returned yields
\* the keys in order without gap or repeat and stops, with every key
\* returned, when the empty page came back: every call but the last
\* returns a key.  The loops of rangeDomainAccounts and
\* GetAllAttachmentPaths, which set Max to the last ID of each page of
\* rows, do so as well.
C31_DescNextEnumerates ==
    [][ ( /\ pgMode \in {"DescNext"} \cup Loops
          /\ ~pgDone
          /\ pgPage.Min.Order = 0
          /\ DescOnTrack )
        => DescOnTrack' ]_vars

\* A descending slice of three keys was enumerated in more than two pages.
C31_Witness ==
    /\ pgMode = "DescNext"
    /\ pgDone
    /\ Len(pgIn) >= 3
    /\ pgCalls >= 3
    /\ pgOut = pgIn

\* The minimum and the maximum value of a page or pager in use.
MinOf(p) ==
    IF IsPager(p) THEN (IF p.SinceID # 0 THEN p.SinceID ELSE p.MinID)
    ELSE p.Min.Value
MaxOf(p) == IF IsPager(p) THEN p.MaxID ELSE p.Max.Value

\* C22: every element PageAsc or PageDesc returns is above the page's
\* minimum value and below its maximum value where these are set, and
\* with a limit above zero no more than limit elements are returned.
C22_StrictlyBetweenBoundaries ==
    ( /\ pgMode \in {"Page.PageAsc", "Page.PageDesc",
                      "Pager.PageAsc", "Pager.PageDesc"}
      /\ ~pgPage.nil )
    => /\ \A i \in 1..Len(pgOut) :
              /\ MinOf(pgPage) # 0 => pgOut[i] > MinOf(pgPage)
              /\ MaxOf(pgPage) # 0 => pgOut[i] < MaxOf(pgPage)
       /\ pgPage.Limit > 0 => Len(pgOut) <= pgPage.Limit

\* C23 (as the specification words it): Next(v) and Prev(v) of pages and
\* pagers return nil exactly when v is the zero value or the receiver is
\* nil; otherwise the page returned has the
\* receiver's limit and the receiver's maximum (for Prev: minimum)
\* boundary name around v; the receiver is left as it was.
C23_NextPrevDeriveFreshPage ==
    [][ (pgMode = "call" /\ pgMode' \in {"Page.Next", "Page.Prev",
                                          "Pager.Next", "Pager.Prev"})
        => /\ pgPage' = pgPage
           /\ pgDerived'.nil <=> (pgPage.nil \/ pgArg' = 0)
           /\ ~pgDerived'.nil =>
                  /\ pgDerived'.Limit = pgPage.Limit
                  /\ pgMode' = "Page.Next" =>
                         pgDerived'.Max = Boundary(pgPage.Max.Name, pgArg', pgPage.Max.Order)
                  /\ pgMode' = "Page.Prev" =>
                         pgDerived'.Min = Boundary(pgPage.Min.Name, pgArg', pgPage.Min.Order)
                  /\ pgMode' = "Pager.Next" => pgDerived'.MaxID = pgArg'
                  /\ pgMode' = "Pager.Prev" =>
                         IF pgPage.SinceID # 0 THEN pgDerived'.SinceID = pgArg'
                         ELSE pgDerived'.MinID = pgArg' ]_vars

\* C23 (as the code has it): Next(v) and Prev(v) return nil when v is the
\* zero value; Page.Next and Page.Prev return nil for a nil page too,
\* while Pager.Next and Pager.Prev on a nil pager return a pager with
\* only the boundary set, without limit.  From a receiver that is not
\* nil the page returned has the receiver's limit and v under the
\* receiver's maximum (for Prev: minimum) boundary name, and nothing
\* else; the receiver is left as it was.
C23_NextPrevAsCoded ==
    [][ (pgMode = "call" /\ pgMode' \in {"Page.Next", "Page.Prev",
                                          "Pager.Next", "Pager.Prev"})
        => /\ pgPage' = pgPage
           /\ pgArg' = 0 => pgDerived'.nil
           /\ (pgArg' # 0 /\ pgPage.nil) =>
                  /\ pgMode' \in {"Page.Next", "Page.Prev"} => pgDerived'.nil
                  /\ pgMode' = "Pager.Next" => pgDerived' = Pager(0, 0, pgArg', 0)
                  /\ pgMode' = "Pager.Prev" => pgDerived' = Pager(0, pgArg', 0, 0)
           /\ (pgArg' # 0 /\ ~pgPage.nil) =>
                  /\ pgMode' = "Page.Next" =>
                         pgDerived' = Page(ZeroBoundary,
                                           Boundary(pgPage.Max.Name, pgArg', pgPage.Max.Order),
                                           pgPage.Limit)
                  /\ pgMode' = "Page.Prev" =>
                         pgDerived' = Page(Boundary(pgPage.Min.Name, pgArg', pgPage.Min.Order),
                                           ZeroBoundary, pgPage.Limit)
                  /\ pgMode' = "Pager.Next" =>
                         pgDerived' = Pager(0, 0, pgArg', pgPage.Limit)
                  /\ pgMode' = "Pager.Prev" =>
                         pgDerived' = IF pgPage.SinceID # 0
                                      THEN Pager(pgArg', 0, 0, pgPage.Limit)
                                      ELSE Pager(0, pgArg', 0, pgPage.Limit) ]_vars

\* Next of a nil pager returned a pager around the value given.
C23_Witness ==
    /\ pgMode = "Pager.Next"
    /\ pgPage.nil
    /\ pgArg # 0
    /\ ~pgDerived.nil
    /\ pgDerived.MaxID = pgArg

\* The statuses a timeline request may return: those between its
\* boundaries, newest first.
Between(q, in) ==
    Reverse(SortedAsc({x \in Elems(in) : (MaxOf(q) # 0 => x < MaxOf(q))
                                              /\ (MinOf(q) # 0 => x > MinOf(q))}))
\* The first n elements of a slice, and the last n.
FirstN(in, n) == IF n < Len(in) THEN SubSeq(in, 1, n) ELSE in
LastN(in, n) == IF n < Len(in) THEN SubSeq(in, Len(in) - n + 1, Len(in)) ELSE in

\* C25: a timeline query returns statuses newest first and never a
\* boundary status; with max_id alone and limit L the L statuses next
\* below max_id, with min_id alone the L statuses next above min_id,
\* with since_id alone the L newest statuses above since_id.
C25_TimelinePages ==
    pgMode = "Timeline" =>
        /\ IsDescending(pgOut)
        /\ \A i \in 1..Len(pgOut) :
               pgOut[i] \notin ({pgPage.MaxID, MinOf(pgPage)} \ {0})
        /\ (pgPage.MaxID # 0 /\ MinOf(pgPage) = 0) =>
               pgOut = FirstN(Between(pgPage, pgIn), pgPage.Limit)
        /\ (pgPage.MaxID = 0 /\ pgPage.SinceID = 0 /\ pgPage.MinID # 0) =>
               pgOut = LastN(Between(pgPage, pgIn), pgPage.Limit)
        /\ (pgPage.MaxID = 0 /\ pgPage.SinceID # 0) =>
               pgOut = FirstN(Between(pgPage, pgIn), pgPage.Limit)

\* C24: the page New builds is ascending only when a min_id was given,
\* descending when a since_id was given, and not ascending when neither
\* was given.
C24_OrderFromBoundaryUsed ==
    pgMode = "New" =>
        /\ order(pgDerived) = OrderAscending => pgPage.MinID # 0
        /\ pgPage.SinceID # 0 => order(pgDerived) = OrderDescending
        /\ (pgPage.MinID = 0 /\ pgPage.SinceID = 0) =>
               order(pgDerived) # OrderAscending

\* C35: PageAsc and PageDesc of pages and pagers leave the caller's
\* slice with the same elements in the same order, and the receiver as
\* it was.
C35_InputAndPageUntouched ==
    [][ pgMode' \in {"Page.PageAsc", "Page.PageDesc",
                     "Pager.PageAsc", "Pager.PageDesc"}
        => pgIn' = pgIn /\ pgPage' = pgPage ]_vars

\* PageAsc reversed what it had cut out of a slice of three elements or
\* more.
C35_Witness ==
    /\ pgMode = "Page.PageAsc"
    /\ Len(pgIn) >= 3
    /\ Len(pgOut) >= 2
    /\ IsAscending(pgIn)
    /\ IsDescending(pgOut)

\* C33: scanQueryPage returns its result in descending order of the
\* column; for a page with only a maximum and a limit L these are the L
\* greatest values below the maximum, and all values for a nil page.
C33_ScanDescendingByDefault ==
    pgMode = "scanQueryPage" =>
        /\ IsDescending(pgOut)
        /\ pgPage.nil => pgOut = Reverse(pgIn)
        /\ (~pgPage.nil /\ pgPage.Min.Value = 0 /\ pgPage.Max.Value # 0
               /\ pgPage.Limit > 0) =>
               pgOut = FirstN(Between(pgPage, pgIn), pgPage.Limit)

\* C32: for a page with a defined order and an ascending slice s,
\* PageAsc(s) and PageDesc(reverse(s)) return the same elements in the
\* same order, whatever the minimum and maximum values are.
C32_PageAscIsPageDescOfReverse ==
    (~IsPager(pgPage) /\ ~pgPage.nil /\ order(pgPage) # 0) =>
        /\ pgMode = "Page.PageAsc" => pgOut = PageDesc(pgPage, Reverse(pgIn))
        /\ pgMode = "Page.PageDesc" => pgOut = PageAsc(pgPage, Reverse(pgIn))

-----------------------------------------------------------------------------
(*                        PROPERTIES OF THE CACHES                         *)

\* What a read of key would hand out now.
Readable(c, key) == EntityGet(ckind, c, key, cnow).value

\* C6: in every entity cache, writing to a value a read returned leaves
\* what a later read of any key returns as it was.
C6_ReadReturnsIsolatedCopy ==
    [][ (cres'.op = "Mutate" /\ cheld.from = "Get") =>
            \A k \in Keys : Readable(centries', k) = Readable(centries, k) ]_vars

\* The same for the caches that copy: status, account, mention and
\* notification.
C6_CopyingCachesIsolated ==
    [][ (cres'.op = "Mutate" /\ cheld.from = "Get"
         /\ ckind \in {"status", "account", "mention", "notification"}) =>
            \A k \in Keys : Readable(centries', k) = Readable(centries, k) ]_vars

\* C19: in the account, status, mention and notification caches every
\* value stored in an entry and every value a read returned has all of
\* its association pointers nil.
C19_AssociationsCleared ==
    ckind \in {"account", "status", "mention", "notification"} =>
        /\ \A k \in Keys : centries[k].has => centries[k].value.assoc = {}
        /\ (cheld.has /\ cheld.from = "Get") => cheld.value.assoc = {}

\* The same for the three caches other than the status cache.
C19_AccountMentionNotificationCleared ==
    ckind \in {"account", "mention", "notification"} =>
        /\ \A k \in Keys : centries[k].has => centries[k].value.assoc = {}
        /\ (cheld.has /\ cheld.from = "Get") => cheld.value.assoc = {}

\* C7: once Invalidate or Evict has removed the entry of a key, the next
\* Load of the key calls the loader and the next plain Get of it misses.
C7_InvalidateThenLoadCallsLoader ==
    [][ \A k \in Keys :
          (clast[k] \in {"Invalidate", "Evict"} /\ cres'.key = k) =>
              /\ cres'.op = "Load" => cres'.loaded
              /\ cres'.op = "Get" => ~cres'.ok ]_vars

\* A block was loaded into the cache, deleted, and the Load after that
\* went to the (now empty) table.
C7_Witness ==
    /\ cres.op = "Load"
    /\ cres.loaded
    /\ ~cres.ok
    /\ clast[cres.key] = "Invalidate"

\* C28: with GetBlock and DeleteBlockByID running concurrently, once the
\* calls have returned the cache holds no entry for a block that is
\* absent from the table, so that a later GetBlock reports not-found.
C28_NoStaleBlockAfterRace ==
    Quiet => \A k \in Keys :
                 (centries[k].has /\ clast[k] = "Load") => cstore[k].has

\* C36: GetMentions on IDs that all exist returns one mention for each
\* requested ID, in the order of the IDs, whether the mention was in the
\* cache or not.
C36_OneMentionPerID ==
    (cres.op = "GetMentions" /\ \A i \in 1..Len(cres.ids) : cstore[cres.ids[i]].has) =>
        /\ cres.ok
        /\ Len(cres.mentions) = Len(cres.ids)
        /\ \A i \in 1..Len(cres.ids) : cres.mentions[i].id = cres.ids[i]

\* C34: SetTTL with update shifts the expiry of every entry in the cache
\* by the difference between the new and the old TTL; without update
\* the entries stay as they are.
C34_SetTTLShiftsExpiries ==
    [][ cres'.op = "SetTTL" =>
          IF cres'.ok
          THEN \A k \in Keys :
                   /\ centries'[k].has = centries[k].has
                   /\ centries[k].has =>
                          centries'[k].expiry = centries[k].expiry + (cttl' - cttl)
          ELSE centries' = centries ]_vars

-----------------------------------------------------------------------------
(*                   PROPERTIES OF THE INDEXED CACHES                      *)

\* The entries whose TTL has lapsed at time now: expiry not after now.
Lapsed(c, now) == {k \in Keys : c[k].has /\ ~(c[k].expiry > now)}

\* C17: a sweep at time now removes exactly the entries whose TTL has
\* lapsed, calls the eviction hook once for each entry it removes and
\* leaves the entries whose expiry is still in the future in the cache.
C17_SweepRemovesLapsed ==
    [][ lres'.op = "Sweep" =>
          /\ \A k \in Keys :
                 lcache'[k].has <=> (lcache[k].has /\ k \notin Lapsed(lcache, lnow))
          /\ lres'.hooks = Lapsed(lcache, lnow)
          /\ \A k \in Keys : lcache'[k].has => lcache'[k] = lcache[k] ]_vars

\* C18: whatever Set, update, eviction and sweep did, every entry of the
\* uris and urls maps points to an ID that is in the cache with exactly
\* that URI / URL, and no entry of the maps points to an ID that is not
\* in the cache.
C18_IndexPointsToCachedValue ==
    /\ \A u \in URIs :
           luris[u] # NoID =>
               /\ lcache[luris[u]].has
               /\ lcache[luris[u]].value.uri = u
    /\ \A x \in URLs :
           lurls[x] # NoID =>
               /\ lcache[lurls[x]].has
               /\ lcache[lurls[x]].value.url = x
    /\ \A k \in Keys :
           ~lcache[k].has =>
               /\ \A u \in URIs : luris[u] # k
               /\ \A x \in URLs : lurls[x] # k

\* An entry with a URL was evicted while the other entry, indexed under
\* its own URI and URL, stayed.
C18_Witness ==
    /\ lres.op = "Evict"
    /\ lres.ok
    /\ ~lcache[lres.key].has
    /\ \E k \in Keys, u \in URIs, x \in URLs :
           /\ lcache[k].has
           /\ luris[u] = k
           /\ lurls[x] = k
    /\ \E x \in URLs : lurls[x] = NoID

-----------------------------------------------------------------------------
(*                    PROPERTIES OF THE MUTES FILTER                       *)

\* The decision the last call worked from: the cached one, or the zero
\* decision when there was no requester.
DecisionUsed == IF mres.authed THEN mcached.d ELSE ZeroMute

\* C20: StatusMuted reports muted exactly when the decision has the mute
\* flag set and its mute expiry is unset or after the current time, and
\* StatusNotificationsMuted the same with the notification flag and
\* expiry; this holds of calls answered from the cache too, so a cached
\* decision whose expiry has lapsed is reported as not muted.  The
\* current time is the one the call took; the second result tells
\* whether the answer depends on an expiry.  A call whose loader failed
\* has no decision and reports not muted, with the error.
C20_MutedUnlessExpired ==
    /\ mres.op \in {"StatusMuted", "StatusNotificationsMuted"} =>
           /\ mres.authed /\ mres.err = "none" => mcached.has
           /\ mres.hit => mres.authed /\ mres.err = "none"
           /\ mres.err # "none" =>
                  /\ mres.authed
                  /\ ~mres.muted
                  /\ ~mres.withExpiry
    /\ mres.op = "StatusMuted" /\ mres.err = "none" =>
           /\ mres.muted = ( /\ DecisionUsed.Mute
                             /\ ( \/ DecisionUsed.MuteExpiry = 0
                                  \/ DecisionUsed.MuteExpiry > mres.now ) )
           /\ mres.muted = (DecisionUsed.Mute /\ ~MuteExpired(DecisionUsed, mres.now))
           /\ mres.withExpiry = (DecisionUsed.Mute /\ DecisionUsed.MuteExpiry # 0)
    /\ mres.op = "StatusNotificationsMuted" /\ mres.err = "none" =>
           /\ mres.muted = ( /\ DecisionUsed.Notifications
                             /\ ( \/ DecisionUsed.NotificationExpiry = 0
                                  \/ DecisionUsed.NotificationExpiry > mres.now ) )
           /\ mres.muted = ( /\ DecisionUsed.Notifications
                             /\ ~NotificationExpired(DecisionUsed, mres.now) )
           /\ mres.withExpiry = ( /\ DecisionUsed.Notifications
                                  /\ DecisionUsed.NotificationExpiry # 0 )

\* A decision cached while the mute was running was read again from the
\* cache after its expiry: not muted.
C20_Witness ==
    /\ mres.op = "StatusMuted"
    /\ mres.hit
    /\ mcached.d.Mute
    /\ mcached.d.MuteExpiry = MaxNow
    /\ mnow = MaxNow
    /\ ~mres.muted
    /\ mres.withExpiry

\* C21: when StatusMuted has returned false for the requester while no
\* mute was stored, and PutMute then stored the only user mute, one that
\* does not mute notifications and has not expired, on a status whose
\* thread the requester has not muted, the calls that follow for the
\* requester answer from the mute and not from the earlier decision:
\* StatusMuted reports muted, StatusNotificationsMuted reports not
\* muted, unless a query of the database failed for a reason other than
\* a row not being there.
C21_MuteServedAfterPutMute ==
    ( /\ mres.dropped
      /\ mres.authed
      /\ mthread # "muted"
      /\ mres.err # "db error"
      /\ \E mu \in UserMutes : /\ \E a \in Related :
                                      mmutes = [NoMutes EXCEPT ![a] = {mu}]
                               /\ ~mu.Notifications
                               /\ mu.ExpiresAt = 0 \/ mu.ExpiresAt > mnow )
    => /\ mres.op = "StatusMuted" => mres.muted
       /\ mres.op = "StatusNotificationsMuted" => ~mres.muted

\* The decision the last call answered from is the one the loader makes
\* of the mutes now stored, at a time up to the call's.
FromStoredMutes ==
    \E t \in 1..mres.now :
        mcached.d = loadStatusMute(mthread = "muted", StoredMutes(mmutes), t)

\* C30: while a user mute without expiry is stored, StatusMuted reports
\* muted for the requester at every time; while the thread is muted or
\* a notification-muting user mute without expiry is stored,
\* StatusNotificationsMuted reports muted at every time; whatever other
\* mutes with an expiry there are and whether they have expired.
C30_NonExpiringMuteNeverLapses ==
    /\ ( /\ mres.op = "StatusMuted"
         /\ mres.authed
         /\ mres.err = "none"
         /\ FromStoredMutes
         /\ \E mu \in StoredMutes(mmutes) : mu.ExpiresAt = 0 )
       => mres.muted
    /\ ( /\ mres.op = "StatusNotificationsMuted"
         /\ mres.authed
         /\ mres.err = "none"
         /\ FromStoredMutes
         /\ \/ mthread = "muted"
            \/ \E mu \in StoredMutes(mmutes) :
                   mu.ExpiresAt = 0 /\ mu.Notifications )
       => mres.muted


-----------------------------------------------------------------------------
(*                PROPERTIES OF THE CLIENT API PROCESSORS                  *)

\* C37: whenever a call of BlockCreate has stored a new block it has
\* enqueued the Create-Block message as well, and for every follow and
\* follow request from the requester to the target that it deleted it
\* has enqueued the Undo-Follow message with the URI of that row, even
\* if a later step of the call failed.
C37_BlockStoredThenEnqueued ==
    \A c \in Callers :
        (xcalls[c].pc = "done" /\ xcalls[c].op = "BlockCreate")
            => /\ xcalls[c].stored => MsgCreateBlock \in xcalls[c].sent
               /\ xcalls[c].frChanged
                      => MsgUndoFollowRequest \in xcalls[c].sent
               /\ xcalls[c].fChanged => MsgUndoFollow \in xcalls[c].sent

\* The Create-Like messages in the queue, and the faves that calls of
\* FaveRemove deleted.
Likes == {i \in 1..Len(xqueue) : xqueue[i] = MsgCreateLike}
Unfaved == xdb.made - Cardinality(xdb.faves)

-----------------------------------------------------------------------------
(*               PROPERTIES OF THE ACCOUNT MUTES FILTER                    *)

\* C40: a call of NotifyFromAccount by a requester who has no mute of
\* the account completes without a nil dereference and reports that
\* notifications are allowed; and a call that completes reports them as
\* not allowed exactly when the requester has a mute of the account
\* that has not expired and has Notifications set.
C40_NotifyAllowedUnlessMuted ==
    ( /\ nres.op = "NotifyFromAccount"
      /\ nres.authed
      /\ ~nres.dbErr )
    => LET row == nmutes[nres.account]
       IN /\ ~row.has => nres.ret = "ok" /\ nres.allowed
          /\ nres.ret = "ok" =>
                 (~nres.allowed <=>
                     /\ row.has
                     /\ row.m.Notifications
                     /\ ~Expired(row.m, nnow))

-----------------------------------------------------------------------------
(*            PROPERTIES OF THE QUEUE CACHE OF THE HTTP CLIENT             *)

\* C26: no more than MaxOpenConns calls of Client.Do for the host hold
\* a slot at a time, whichever channel they took it from.
C26_AtMostMaxOpenConnsPerHost == Slots(qcur) + Slots(qold) <= hcmax

\* C39: all calls of Client.Do for a host that hold or wait for a slot
\* use the same channel: no call holds or waits on a channel the sweep
\* dropped from the cache, and so no more than MaxOpenConns calls hold
\* a slot for the host.
C39_OneQueuePerHost ==
    /\ Calls(qold) = 0
    /\ Slots(qcur) + Slots(qold) <= hcmax

-----------------------------------------------------------------------------
(*                      PROPERTIES OF THE WORKER POOL                      *)

\* Number of log entries for message id.
Logged(id) == Cardinality({i \in 1..Len(plog) : plog[i] = id})

\* Message id is waiting in the queue or being run.
Pending(id) ==
    \/ \E i \in 1..Len(pqueue) : pqueue[i] = id
    \/ \E w \in Workers : pwork[w] = id

\* C8: a message whose processing returned an error is logged once and
\* is gone: not in the queue again, not processed again; no message is
\* processed more than once, the error stops no worker, and every queued
\* message is processed (unless a panic ended the process or the pool
\* was stopped while the message waited).
C8_ErrorLoggedNotRequeued ==
    /\ [](\A id \in MsgIDs :
            /\ pdone[id] <= 1
            /\ (pdone[id] = 1 /\ pout[id] = "err") =>
                   /\ Logged(id) = 1
                   /\ ~Pending(id)
            /\ (pdone[id] = 1) => ~Pending(id)
            /\ Logged(id) > 0 => pout[id] = "err")
    /\ []((\A id \in Queued : pout[id] # "panic") => ~pcrashed)
    /\ \A id \in MsgIDs :
          Pending(id) ~> (pdone[id] = 1 \/ pcrashed \/ ~pstarted)

\* An error was logged for the first message and the one queued after it
\* was processed all the same.
C8_Witness ==
    /\ pout[1] = "err" /\ pdone[1] = 1 /\ plog = <<1>>
    /\ pout[2] = "ok" /\ pdone[2] = 1
    /\ ~pcrashed
    /\ pqueue = <<>>

\* C9: a panic of the processor is caught at the pool boundary and turned
\* into a logged error, and the worker stays: the message is in the log
\* and the pool is still running.
C9_PanicCaughtAndLogged ==
    \A id \in MsgIDs :
        (pout[id] = "panic" /\ pdone[id] = 1) =>
            /\ Logged(id) = 1
            /\ ~pcrashed

\* C27: while no processor is registered, a Start returns the error
\* about the nil process function and starts no workers: the pool is
\* not running and no worker holds a task.
C27_StartFailsWithoutProcessor ==
    /\ (~pprocess /\ pret \notin {"none", "error:failed to stop"}) =>
           /\ pret = "error:nil process"
           /\ ~pstarted
           /\ \A w \in Workers : pwork[w] = 0
    /\ pstarted => pprocess

\* Start was called before SetProcessor and failed.
C27_Witness ==
    /\ ~pprocess
    /\ pret = "error:nil process"
    /\ ~pstarted

=============================================================================
